---------------------------- MODULE DesktopShell ----------------------------
(***************************************************************************)
(* The parts of the desktop app around the detection (main.rs,             *)
(* diagnostics.rs): the health of the capture, the overlay, the            *)
(* countdown's click and jingle, the Discord presence and the export of    *)
(* the logs.  They share nothing but the system they are built for, so     *)
(* each behaviour runs one of them, which Init picks.                      *)
(***************************************************************************)
EXTENDS CaptureHealth, Overlay, Countdown, Presence, LogExport

VARIABLE part

Parts == {"health", "overlay", "countdown", "presence", "logs"}

vars == <<os, part, bannerVars, overlayVars, countdownVars, presenceVars, logVars>>

TypeOK == /\ os \in Systems /\ part \in Parts
          /\ HealthTypeOK /\ OverlayTypeOK /\ CountdownTypeOK
          /\ PresenceTypeOK /\ LogTypeOK

Init == /\ os \in Systems /\ part \in Parts
        /\ HealthInit /\ OverlayInit /\ CountdownInit /\ PresenceInit /\ LogInit

HealthNext ==
  /\ part = "health" /\ HealthStep
  /\ UNCHANGED <<os, part, overlayVars, countdownVars, presenceVars, logVars>>

OverlayNext ==
  /\ part = "overlay" /\ OverlayStep
  /\ UNCHANGED <<os, part, bannerVars, countdownVars, presenceVars, logVars>>

CountdownNext ==
  /\ part = "countdown" /\ CountdownStep
  /\ UNCHANGED <<os, part, bannerVars, overlayVars, presenceVars, logVars>>

PresenceNext ==
  /\ part = "presence" /\ PresenceStep
  /\ UNCHANGED <<os, part, bannerVars, overlayVars, countdownVars, logVars>>

LogNext ==
  /\ part = "logs" /\ LogStep
  /\ UNCHANGED <<os, part, bannerVars, overlayVars, countdownVars, presenceVars>>

Next == HealthNext \/ OverlayNext \/ CountdownNext \/ PresenceNext \/ LogNext

Spec == Init /\ [][Next]_vars

FairSpec == Spec /\ HealthFairness /\ PresenceFairness
==============================================================================
