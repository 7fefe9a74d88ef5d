------------------------------ MODULE Platform ------------------------------
(***************************************************************************)
(* The system the desktop app is built for.  The code chooses at compile   *)
(* time (cfg(target_os)); a run checks both, as two sets of behaviours.    *)
(***************************************************************************)
VARIABLE os

Systems == {"linux", "windows"}
Linux   == os = "linux"
Windows == os = "windows"
==============================================================================
