---------------------------- MODULE PacketCapture ----------------------------
(***************************************************************************)
(* One capture window (netcap's lib.rs): a thread for every interface      *)
(* reads packets until the window is over, counts them, and adds those on  *)
(* the game's ports to flows the threads share.  On Linux one socket sees  *)
(* all interfaces and there is no count; the capture runs in the helper    *)
(* betterfleet-netcap, or in the app when the helper cannot be used        *)
(* (diagnostics.rs).  On Windows it runs in the service of CapturePipe.    *)
(*                                                                         *)
(* An endpoint is a host and a port.  The size of a packet, which only     *)
(* breaks ties in the ranking, and what is not UDP are left out.           *)
(*                                                                         *)
(* Operators named X_Y and commented (fault) are not part of the model.    *)
(***************************************************************************)
EXTENDS Platform, Naturals, FiniteSets, Functions

CONSTANTS
  Iface,        \* the addresses to watch, each once (dedup_capture_ips)
  Packet,       \* records with fields on, from and to
  Nobody, NoCount,
  WindowTicks,  \* the window
  MaxReads      \* bound: packets read in a window

ASSUME CaptureAssumption ==
  /\ IsFiniteSet(Iface) /\ Iface # {}
  /\ \A p \in Packet : p.on \in Iface
  /\ Nobody \notin Packet
  /\ WindowTicks \in Nat \ {0} /\ MaxReads \in Nat

VARIABLES
  stage,     \* "idle", "helper", "capture", "done"
  helper,    \* the capture runs in betterfleet-netcap
  filter,    \* game_ports
  now,       \* ticks since start, up to WindowTicks + 1
  thread,    \* thread[i]: "open", "read", "stamp", "observe", "over"
  hand,      \* hand[i]: the packet it has read and not yet added
  stamp,     \* stamp[i]: its t_ms
  opened,    \* the interfaces whose socket opened
  agg,       \* FlowAggregator: flow -> counts and span
  raw,       \* raw_packets
  flows,     \* the flows returned
  rawCount,  \* the count returned, or NoCount
  reads,     \* how many packets were read (bounded; history)
  wanted,    \* how many of them on the game's ports (history)
  heard,     \* which (history)
  gone       \* the interfaces whose socket is gone (history)

threadVars  == <<thread, hand, stamp, opened>>
sharedVars  == <<agg, raw>>
outVars     == <<flows, rawCount>>
historyVars == <<reads, wanted, heard, gone>>
captureVars ==
  <<stage, helper, filter, now, threadVars, sharedVars, outVars, historyVars>>

PortOf(e) == e[2]
Ports     == {PortOf(p.from) : p \in Packet} \cup {PortOf(p.to) : p \in Packet}
Peers     == {p.from : p \in Packet} \cup {p.to : p \in Packet}
Flow      == [port : Ports, peer : Peers]
Nothing   == [f \in {} |-> 0]

Stat == [inbound : Nat, outbound : Nat, first : Nat, last : Nat]

CaptureTypeOK ==
  /\ stage \in {"idle", "helper", "capture", "done"}
  /\ helper \in BOOLEAN
  /\ now \in 0..(WindowTicks + 1)
  /\ thread \in [Iface -> {"open", "read", "stamp", "observe", "over"}]
  /\ hand \in [Iface -> Packet \cup {Nobody}]
  /\ stamp \in [Iface -> 0..(WindowTicks + 1)]
  /\ opened \subseteq Iface
  /\ DOMAIN agg \subseteq Flow /\ \A f \in DOMAIN agg : agg[f] \in Stat
  /\ DOMAIN flows \subseteq Flow /\ \A f \in DOMAIN flows : flows[f] \in Stat
  /\ raw \in 0..MaxReads
  /\ rawCount = NoCount \/ rawCount \in 0..MaxReads
  /\ reads \in 0..MaxReads /\ wanted \in 0..reads
  /\ heard \subseteq Packet
  /\ gone \subseteq Iface

\* The AF_PACKET socket sees all interfaces, and needs only one thread.
Watched == IF Windows THEN Iface ELSE {CHOOSE i \in Iface : TRUE}

NewThreads == [i \in Iface |-> IF i \in Watched THEN "open" ELSE "over"]
NoPackets  == [i \in Iface |-> Nobody]
NoStamps   == [i \in Iface |-> 0]

CaptureInit ==
  /\ stage = "idle" /\ helper = FALSE /\ filter = {}
  /\ now = 0 /\ thread = NewThreads /\ hand = NoPackets /\ stamp = NoStamps
  /\ opened = {} /\ agg = Nothing /\ raw = 0
  /\ flows = Nothing /\ rawCount = NoCount
  /\ reads = 0 /\ wanted = 0 /\ heard = {} /\ gone = {}

\* A capture begins from nothing.
Afresh ==
  /\ now' = 0 /\ thread' = NewThreads /\ hand' = NoPackets /\ stamp' = NoStamps
  /\ opened' = {} /\ agg' = Nothing /\ raw' = 0
  /\ reads' = 0 /\ wanted' = 0 /\ heard' = {} /\ gone' = {}

-----------------------------------------------------------------------------
(* The packets of the game *)

Hits(p) == PortOf(p.from) \in filter \/ PortOf(p.to) \in filter

\* parse_game_flow: the game is the source when both ports are the game's
Outbound(p) == PortOf(p.from) \in filter
FlowOf(p) == IF Outbound(p) THEN [port |-> PortOf(p.from), peer |-> p.to]
                            ELSE [port |-> PortOf(p.to), peer |-> p.from]

\* (fault) a flow starts anew with every packet
Observed_Anew(a, p, t) ==
  [f \in DOMAIN a \cup {FlowOf(p)} |->
     IF f = FlowOf(p)
       THEN [inbound |-> IF Outbound(p) THEN 0 ELSE 1,
             outbound |-> IF Outbound(p) THEN 1 ELSE 0, first |-> t, last |-> t]
       ELSE a[f]]

\* FlowAggregator::observe
Observed(a, p, t) ==
  LET f == FlowOf(p)
      old == IF f \in DOMAIN a THEN a[f]
             ELSE [inbound |-> 0, outbound |-> 0, first |-> t, last |-> t]
      new == [old EXCEPT !.inbound = IF Outbound(p) THEN @ ELSE @ + 1,
                         !.outbound = IF Outbound(p) THEN @ + 1 ELSE @,
                         !.last = t]
  IN [g \in DOMAIN a \cup {f} |-> IF g = f THEN new ELSE a[g]]

Error == {"interrupted", "tooLong", "reset", "noBuffers", "gone"}

\* is_recoverable_capture_error; capture_af_packet gives up on any of them
Recoverable(e) == Windows /\ e # "gone"

-----------------------------------------------------------------------------
(* The threads *)

Step(i, from, to) == stage = "capture" /\ thread[i] = from
                     /\ thread' = [thread EXCEPT ![i] = to]

\* (fault) the loop does not look at the clock
Back_Unchecked == "read"

\* The head of the loop: the deadline is looked at between two reads, so the last
\* packet may come after it.
Back == IF now < WindowTicks THEN "read" ELSE "over"

OpenSocket(i) ==
  /\ \/ Step(i, "open", Back) /\ opened' = opened \cup {i}
     \/ Step(i, "open", "over") /\ UNCHANGED opened
  /\ UNCHANGED <<stage, helper, filter, now, hand, stamp, sharedVars, outVars,
                 historyVars>>

Counts(p) == IF Windows THEN 1 ELSE 0

ReadPacket(i) ==
  /\ reads < MaxReads
  /\ \E p \in Packet :
       /\ p.on = i \/ Linux
       /\ IF Hits(p)
            THEN Step(i, "read", "stamp") /\ hand' = [hand EXCEPT ![i] = p]
            ELSE Step(i, "read", Back) /\ UNCHANGED hand
       /\ raw' = raw + Counts(p)
       /\ reads' = reads + 1
       /\ wanted' = IF Hits(p) THEN wanted + 1 ELSE wanted
       /\ heard' = heard \cup {p}
  /\ UNCHANGED <<stage, helper, filter, now, stamp, opened, agg, outVars, gone>>

ReadError(i) ==
  /\ \E e \in Error :
       /\ Step(i, "read", IF Recoverable(e) THEN Back ELSE "over")
       /\ gone' = IF e = "gone" THEN gone \cup {i} ELSE gone
  /\ UNCHANGED <<stage, helper, filter, now, hand, stamp, opened, sharedVars,
                 outVars, reads, wanted, heard>>

\* The read timeout of the socket.
ReadTimesOut(i) ==
  /\ Step(i, "read", Back)
  /\ UNCHANGED <<stage, helper, filter, now, hand, stamp, opened, sharedVars,
                 outVars, historyVars>>

\* t_ms is read before the lock is taken.
StampIt(i) ==
  /\ Step(i, "stamp", "observe")
  /\ stamp' = [stamp EXCEPT ![i] = now]
  /\ UNCHANGED <<stage, helper, filter, now, hand, opened, sharedVars, outVars,
                 historyVars>>

ObserveIt(i) ==
  /\ Step(i, "observe", Back)
  /\ agg' = Observed(agg, hand[i], stamp[i])
  /\ hand' = [hand EXCEPT ![i] = Nobody] /\ stamp' = [stamp EXCEPT ![i] = 0]
  /\ UNCHANGED <<stage, helper, filter, now, opened, raw, outVars, historyVars>>

\* What a thread does whatever arrives.
RunsOn(i) == OpenSocket(i) \/ ReadTimesOut(i) \/ StampIt(i) \/ ObserveIt(i)

ThreadStep(i) == RunsOn(i) \/ ReadPacket(i) \/ ReadError(i)

TimePasses ==
  /\ stage = "capture" /\ now <= WindowTicks
  /\ now' = now + 1
  /\ UNCHANGED <<stage, helper, filter, threadVars, sharedVars, outVars, historyVars>>

-----------------------------------------------------------------------------
(* The capture *)

Begin(ports) ==
  /\ stage = "idle"
  /\ filter' = ports
  /\ stage' = IF Windows THEN "capture" ELSE IF ports = {} THEN "done" ELSE "helper"
  /\ UNCHANGED <<helper, now, threadVars, sharedVars, outVars, historyVars>>

\* Exit 2: the app called it wrong, and gets no flows.
HelperRefuses ==
  /\ stage = "helper" /\ stage' = "done"
  /\ UNCHANGED <<helper, filter, now, threadVars, sharedVars, outVars, historyVars>>

HelperRuns ==
  /\ stage = "helper" /\ stage' = "capture" /\ helper' = TRUE
  /\ UNCHANGED <<filter, now, threadVars, sharedVars, outVars, historyVars>>

\* Missing, without the capability, or killed: the app captures instead, anew.
HelperUnusable ==
  /\ stage = "helper" \/ (stage = "capture" /\ helper)
  /\ stage' = "capture" /\ helper' = FALSE
  /\ Afresh
  /\ UNCHANGED <<filter, outVars>>

Collect ==
  /\ stage = "capture" /\ \A i \in Iface : thread[i] = "over"
  /\ stage' = "done"
  /\ flows' = agg
  /\ rawCount' = IF Windows /\ opened # {} THEN raw ELSE NoCount
  /\ UNCHANGED <<helper, filter, now, threadVars, sharedVars, historyVars>>

CaptureStep ==
  \/ HelperRefuses \/ HelperRuns \/ HelperUnusable \/ Collect
  \/ \E i \in Iface : ThreadStep(i)
  \/ TimePasses

\* The caller takes the flows; the next window starts from nothing.
Release ==
  /\ stage = "done" /\ stage' = "idle"
  /\ helper' = FALSE /\ filter' = {} /\ flows' = Nothing /\ rawCount' = NoCount
  /\ Afresh

-----------------------------------------------------------------------------
(* Properties *)

Total(a) == FoldFunction(LAMBDA s, n : s.inbound + s.outbound + n, 0, a)
InHand   == {i \in Iface : hand[i] # Nobody}

\* Every packet read on the game's ports is in a flow or in a thread's hand, and
\* at the end in the flows returned: threads lose each other no update
\* (lib.rs:323-325, 415-418).  The count returned is of all that was read, so that
\* silence is told from a game without traffic (lib.rs:160-168, 197-200); and on
\* Windows an interface is given up early only with its socket (lib.rs:430-446).
NothingIsLost ==
  /\ stage = "capture" => Total(agg) + Cardinality(InHand) = wanted
  /\ stage = "done" => Total(flows) = wanted
  /\ stage = "done" /\ Windows => rawCount = IF opened = {} THEN NoCount ELSE reads
  /\ \A i \in opened :
       Windows /\ thread[i] = "over" /\ now < WindowTicks => i \in gone

\* A window ends, whatever arrives or does not (lib.rs:279-281).
WindowEnds == stage = "capture" ~> stage = "done"
==============================================================================
