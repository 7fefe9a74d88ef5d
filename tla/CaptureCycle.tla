---------------------------- MODULE CaptureCycle ----------------------------
(***************************************************************************)
(* A cycle of the detection loop, or a diagnostic, up to its flows: the    *)
(* ports of the game (GamePorts), then a capture of them (PacketCapture).  *)
(* The socket table moves on while the capture runs, which nothing looks   *)
(* at: it is forgotten when the ports are known.                           *)
(***************************************************************************)
EXTENDS GamePorts, PacketCapture

vars == <<os, portsVars, captureVars>>

TypeOK == os \in Systems /\ PortsTypeOK /\ CaptureTypeOK /\ filter \subseteq Port

Init == os \in Systems /\ PortsInit /\ CaptureInit

ScanStep == PortsStep /\ UNCHANGED <<os, captureVars>>

ForgetTable ==
  /\ kind' = NoKind /\ parent' = NoParent /\ alive' = {} /\ owner' = NoOwner
  /\ churn' = 0
  /\ pids' = {} /\ first' = Nil /\ targets' = {}

\* The loop captures when it has found ports, a diagnostic in any case.
StartWindow ==
  /\ step = "done" /\ pids # {}
  /\ Begin(found)
  /\ ForgetTable
  /\ UNCHANGED <<os, step, found, failed, steady, noUdp>>

Rest ==
  /\ ForgetTable
  /\ found' = {} /\ failed' = FALSE /\ steady' = {}
  /\ step' = "idle" /\ UNCHANGED <<os, noUdp>>

\* No window without a game, nor, in the loop, without ports.
SkipWindow ==
  /\ step = "done" /\ stage = "idle" /\ found = {}
  /\ Rest /\ UNCHANGED captureVars

EndWindow == Release /\ Rest

WindowStep == CaptureStep /\ UNCHANGED <<os, portsVars>>

Next == ScanStep \/ StartWindow \/ SkipWindow \/ WindowStep \/ EndWindow

Spec == Init /\ [][Next]_vars

\* The threads of a window run, their reads time out, time passes; a helper answers.
Fairness ==
  /\ WF_vars(TimePasses /\ UNCHANGED <<os, portsVars>>)
  /\ WF_vars(Collect /\ UNCHANGED <<os, portsVars>>)
  /\ \A i \in Iface : WF_vars(RunsOn(i) /\ UNCHANGED <<os, portsVars>>)

FairSpec == Spec /\ Fairness

\* What is read on a port the game has held since the cycle began is in a flow
\* of the game, unless a socket table was unreadable or the helper refused to
\* run: neither churn during the scan nor the threads' order loses it.
GameTrafficIsRanked ==
  /\ SteadyPortsAreFound
  /\ stage = "done" /\ ~failed =>
       \A p \in heard : {PortOf(p.from), PortOf(p.to)} \cap SteadyPorts # {} =>
         FlowOf(p) \in DOMAIN flows
==============================================================================
