----------------------------- MODULE CapturePipe -----------------------------
(***************************************************************************)
(* The privileged capture of the desktop app on Windows: the service that  *)
(* serves one client at a time over a named pipe (service_ipc.rs,          *)
(* service_proto.rs, betterfleet_capture_service.rs) and the clients that  *)
(* ask it for a capture.                                                   *)
(*                                                                         *)
(* A pipe has one instance, made anew for every client, so between two     *)
(* clients the name does not exist.  Several copies of the server may run  *)
(* (one under the service control manager, others in a console): the name  *)
(* belongs to the first.  A request fits the pipe's buffer; an answer that *)
(* does not is written as the client reads it.                             *)
(*                                                                         *)
(* A tick passes when nobody has a step to take at once, so the polls of   *)
(* complete_overlapped and of the client are prompt against the deadlines. *)
(*                                                                         *)
(* Operators named X_Y and commented (fault) are not part of the model.    *)
(***************************************************************************)
EXTENDS Naturals, Sequences

CONSTANTS
  Client, Server,
  Service,      \* the server under the service control manager
  Nil,
  Asks,         \* [Client -> SUBSET Request]: what each client may ask
  Version,      \* PROTOCOL_VERSION
  MaxPorts,     \* MAX_PORTS_PER_REQUEST
  MaxWindow,    \* MAX_WINDOW_SECS
  Late,         \* how far a capture may overrun its window
  IoDeadline,   \* IO_DEADLINE of the service
  Cooldown,     \* REQUEST_COOLDOWN
  Backoff,      \* the pause after a pipe that could not be made or connected
  Slack,        \* what the wait hint adds to MAX_WINDOW_SECS
  Budget,       \* [Client -> Nat]: connect_timeout
  Margin        \* what a client's io_deadline adds to its window

Request == [frame: {"ok", "garbled", "oversize"}, version: Nat,
            ports: Seq(Nat), window: Nat]

ASSUME ConstantsAssumption ==
  /\ Service \in Server
  /\ Nil \notin Client \cup Server \cup Request
  /\ Asks \in [Client -> SUBSET Request]
  /\ {Version, MaxPorts, MaxWindow, Late, Slack, Margin} \subseteq Nat
  /\ {IoDeadline, Cooldown, Backoff} \subseteq Nat \ {0}
  /\ Budget \in [Client -> Nat]

\* A client retries for longer than the gap between two pipes (connect_timeout).
ASSUME BudgetAssumption == \A c \in Client : Budget[c] > Cooldown

\* The wait hint covers a capture that overruns, and the two pauses in a row of a
\* server that cannot make its pipe, or connect it.
ASSUME HintAssumption == Late <= Slack /\ Cooldown + Backoff <= MaxWindow + Slack

VARIABLES
  pc,       \* pc[s]: "top" of the serve loop, "pause", "backoff", "serve", "down"
  rest,     \* rest[s]: what is left of the pause
  scm,      \* the status the service control manager holds
  raising,  \* the handler has sent StopPending and not yet raised the flag
  stop,     \* STOP
  overdue,  \* ticks since STOP was raised
  owner,    \* the server that holds the pipe, Nil when the name does not exist
  phase,    \* where serve_one_request is
  peer,     \* the client connected to the pipe
  inbox, outbox,   \* the request, then the answer, in the pipe
  clock,    \* ticks in this phase
  cpc,      \* cpc[c]: "idle", "open", "send", "read"
  ask,      \* ask[c]: the request being made
  cclock,   \* ticks since the client began to connect, or connected
  hung,     \* the client has stopped reading and writing
  met       \* met[c]: what the client's attempt to connect met (history)

serverVars == <<pc, rest>>
scmVars    == <<scm, raising, stop, overdue>>
pipeVars   == <<owner, phase, peer, inbox, outbox, clock>>
clientVars == <<cpc, ask, cclock, hung>>
vars       == <<serverVars, scmVars, pipeVars, clientVars, met>>

Hint     == MaxWindow + Slack
LastTick == Hint + 1

TypeOK ==
  /\ pc \in [Server -> {"down", "top", "pause", "backoff", "serve"}]
  /\ rest \in [Server -> 0..(Cooldown + Backoff)]
  /\ scm \in {"stopped", "running", "pending", "died"}
  /\ raising \in BOOLEAN
  /\ stop \in BOOLEAN
  /\ overdue \in Nat
  /\ owner \in Server \cup {Nil}
  /\ phase \in {"none", "listen", "accept", "read", "capture", "write", "push", "drain"}
  /\ peer \in Client \cup {Nil}
  /\ inbox \in Request \cup {Nil}
  /\ outbox \in Request \cup {Nil}
  /\ clock \in Nat
  /\ cpc \in [Client -> {"idle", "open", "send", "read"}]
  /\ ask \in [Client -> Request \cup {Nil}]
  /\ cclock \in [Client -> Nat]
  /\ hung \in [Client -> BOOLEAN]
  /\ met \in [Client -> SUBSET {"absent", "busy"}]

Init ==
  /\ pc = [s \in Server |-> "down"] /\ rest = [s \in Server |-> 0]
  /\ scm = "stopped" /\ raising = FALSE /\ stop = FALSE /\ overdue = 0
  /\ owner = Nil /\ phase = "none" /\ peer = Nil
  /\ inbox = Nil /\ outbox = Nil /\ clock = 0
  /\ cpc = [c \in Client |-> "idle"] /\ ask = [c \in Client |-> Nil]
  /\ cclock = [c \in Client |-> 0] /\ hung = [c \in Client |-> FALSE]
  /\ met = [c \in Client |-> {}]

-----------------------------------------------------------------------------
(* The protocol *)

\* (fault) the window has no cap
Valid_AnyWindow(r) ==
  /\ r.frame = "ok" /\ r.version = Version
  /\ Len(r.ports) <= MaxPorts
  /\ \A i \in DOMAIN r.ports : r.ports[i] # 0
  /\ r.window > 0

\* decode_request, then validate_request: one bad entry refuses the request
Valid(r) ==
  /\ r.frame = "ok"
  /\ r.version = Version
  /\ Len(r.ports) <= MaxPorts
  /\ \A i \in DOMAIN r.ports : r.ports[i] # 0
  /\ r.window \in 1..MaxWindow

\* The client at the other end has closed, or exited.
Gone == peer # Nil /\ cpc[peer] \notin {"send", "read"}

StopSeen(s) == s = Service /\ stop

\* Some server is up and has not failed its last cycle.
Rotating == \E s \in Server : pc[s] \in {"top", "pause", "serve"}

\* What the attempts to connect have met, this step included.
Meet ==
  met' = [c \in Client |->
            IF cpc'[c] # "open" THEN {}
            ELSE met[c]
                 \cup (IF Rotating' THEN {} ELSE {"absent"})
                 \cup (IF peer' = Nil THEN {} ELSE {"busy"})]

-----------------------------------------------------------------------------
(* The server *)

\* (fault) what the pipe held is found by the next client
Close_Kept ==
  /\ owner' = Nil /\ phase' = "none" /\ peer' = Nil /\ clock' = 0
  /\ UNCHANGED <<inbox, outbox>>

\* DisconnectNamedPipe and the drop of the handle: unread data is discarded
Close ==
  /\ owner' = Nil /\ phase' = "none" /\ peer' = Nil /\ clock' = 0
  /\ inbox' = Nil /\ outbox' = Nil

\* (fault) the next pipe is made after a long pause
Served_LongPause(s) ==
  /\ Close
  /\ pc' = [pc EXCEPT ![s] = "top"]
  /\ rest' = [rest EXCEPT ![s] = Cooldown + Backoff]
  /\ UNCHANGED <<scmVars, clientVars, met>>

Served(s) ==
  /\ Close
  /\ pc' = [pc EXCEPT ![s] = "top"]
  /\ rest' = [rest EXCEPT ![s] = Cooldown]
  /\ UNCHANGED <<scmVars, clientVars, met>>

\* The process is over, and a restart takes a tick; for the service, the manager
\* holds the status st.
Over(s, st) ==
  /\ pc' = [pc EXCEPT ![s] = "down"]
  /\ rest' = [rest EXCEPT ![s] = 1]
  /\ IF s = Service
       THEN scm' = st /\ raising' = FALSE /\ stop' = FALSE /\ overdue' = 0
       ELSE UNCHANGED scmVars
  /\ IF owner = s THEN Close ELSE UNCHANGED pipeVars
  /\ UNCHANGED clientVars
  /\ Meet

Start(s) ==
  /\ pc[s] = "down" /\ rest[s] = 0
  /\ pc' = [pc EXCEPT ![s] = "top"]
  /\ scm' = IF s = Service THEN "running" ELSE scm
  /\ UNCHANGED <<rest, raising, stop, overdue, pipeVars, clientVars, met>>

Crash(s) == pc[s] # "down" /\ Over(s, "died")

\* The top of the loop: leave when the flag is up, else sleep what is owed.
Exit(s) == pc[s] = "top" /\ StopSeen(s) /\ Over(s, "stopped")

Pause(s) ==
  /\ pc[s] = "top" /\ ~StopSeen(s)
  /\ pc' = [pc EXCEPT ![s] = "pause"]
  /\ UNCHANGED <<rest, scmVars, pipeVars, clientVars, met>>

\* FILE_FLAG_FIRST_PIPE_INSTANCE: the name must not exist
Create(s) ==
  /\ pc[s] = "pause" /\ rest[s] = 0 /\ owner = Nil
  /\ owner' = s /\ phase' = "listen"
  /\ pc' = [pc EXCEPT ![s] = "serve"]
  /\ UNCHANGED <<rest, peer, inbox, outbox, clock, scmVars, clientVars>>
  /\ Meet

\* "pipe cycle failed": serve_loop retries after the backoff.
CycleFails(s) ==
  /\ pc' = [pc EXCEPT ![s] = "backoff"]
  /\ rest' = [rest EXCEPT ![s] = Backoff]
  /\ UNCHANGED <<scmVars, clientVars>>
  /\ Meet

\* The name is taken, or the descriptor, the pipe or its event cannot be made.
CreateFails(s) ==
  /\ pc[s] = "pause" /\ rest[s] = 0
  /\ UNCHANGED pipeVars /\ CycleFails(s)

\* ConnectNamedPipe fails: for one, its client has come and gone.
AcceptFails(s) ==
  /\ owner = s /\ phase \in {"listen", "accept"}
  /\ Close /\ CycleFails(s)

Retry(s) ==
  /\ pc[s] = "backoff" /\ rest[s] = 0
  /\ pc' = [pc EXCEPT ![s] = "top"]
  /\ UNCHANGED <<rest, scmVars, pipeVars, clientVars, met>>

\* ServeOutcome::Stopped: the accept and the read give up when the flag is up.
Stopped(s) ==
  /\ owner = s /\ phase \in {"listen", "accept", "read"} /\ StopSeen(s)
  /\ Over(s, "stopped")

Accept(s) ==
  /\ owner = s /\ phase = "accept" /\ ~StopSeen(s)
  /\ phase' = "read" /\ clock' = 0
  /\ UNCHANGED <<owner, peer, inbox, outbox, serverVars, scmVars, clientVars, met>>

\* read_message, decode_request, validate_request: a request that may not be
\* served is answered with an error.
Read(s) ==
  /\ owner = s /\ phase = "read" /\ inbox # Nil
  /\ phase' = IF Valid(inbox) THEN "capture" ELSE "write"
  /\ clock' = 0
  /\ UNCHANGED <<owner, peer, inbox, outbox, serverVars, scmVars, clientVars, met>>

ReadFails(s) ==
  /\ owner = s /\ phase = "read" /\ inbox = Nil
  /\ Gone \/ clock >= IoDeadline
  /\ Served(s)

\* The capture runs its window out, or ends early with no interface left to read:
\* it does not look at the flag.
Captured(s) ==
  /\ owner = s /\ phase = "capture"
  /\ phase' = "write" /\ clock' = 0
  /\ UNCHANGED <<owner, peer, inbox, outbox, serverVars, scmVars, clientVars, met>>

Write(s) ==
  /\ owner = s /\ phase = "write"
  /\ IF Gone
       THEN Served(s)
       ELSE /\ outbox' = inbox /\ clock' = 0
            /\ phase' \in IF Valid(inbox) THEN {"push", "drain"} ELSE {"drain"}
            /\ UNCHANGED <<owner, peer, inbox, serverVars, scmVars, clientVars, met>>

\* An answer larger than the buffer: written once the client has read it, or given up.
Pushed(s) ==
  /\ owner = s /\ phase = "push"
  /\ IF outbox = Nil
       THEN /\ phase' = "drain" /\ clock' = 0
            /\ UNCHANGED <<owner, peer, inbox, outbox, serverVars, scmVars, clientVars, met>>
       ELSE (Gone \/ clock >= IoDeadline \/ StopSeen(s)) /\ Served(s)

\* (fault) the pipe is closed as soon as the answer is in it
Drained_AtOnce(s) == owner = s /\ phase = "drain" /\ Served(s)

\* The wait for the client to read and close, bounded and stop-aware.
Drained(s) ==
  /\ owner = s /\ phase = "drain"
  /\ Gone \/ clock >= IoDeadline \/ StopSeen(s)
  /\ Served(s)

ServerStep(s) ==
  \/ Exit(s) \/ Pause(s) \/ Create(s) \/ CreateFails(s) \/ Retry(s)
  \/ Stopped(s) \/ Accept(s) \/ AcceptFails(s) \/ Read(s) \/ ReadFails(s)
  \/ Captured(s) \/ Write(s) \/ Pushed(s) \/ Drained(s)

-----------------------------------------------------------------------------
(* The stop control: two steps of the handler, on a thread of its own *)

StopControl ==
  /\ scm = "running"
  /\ scm' = "pending" /\ raising' = TRUE
  /\ UNCHANGED <<stop, overdue, serverVars, pipeVars, clientVars, met>>

RaiseStop ==
  /\ raising
  /\ raising' = FALSE /\ stop' = TRUE
  /\ UNCHANGED <<scm, overdue, serverVars, pipeVars, clientVars, met>>

-----------------------------------------------------------------------------
(* The clients: request_capture *)

Ask(c) ==
  /\ cpc[c] = "idle" /\ cclock[c] = 0
  /\ \E r \in Asks[c] : ask' = [ask EXCEPT ![c] = r]
  /\ cpc' = [cpc EXCEPT ![c] = "open"]
  /\ UNCHANGED <<cclock, hung, serverVars, scmVars, pipeVars>>
  /\ Meet

\* The call returns, or the client's process exits: the handle is closed.  A
\* client makes its next call a tick later at the earliest.
Return(c) ==
  /\ cpc' = [cpc EXCEPT ![c] = "idle"]
  /\ ask' = [ask EXCEPT ![c] = Nil]
  /\ cclock' = [cclock EXCEPT ![c] = 1]
  /\ hung' = [hung EXCEPT ![c] = FALSE]
  /\ UNCHANGED <<serverVars, scmVars>>

Open(c) ==
  /\ cpc[c] = "open" /\ phase = "listen"
  /\ cpc' = [cpc EXCEPT ![c] = "send"]
  /\ cclock' = [cclock EXCEPT ![c] = 0]
  /\ phase' = "accept" /\ peer' = c
  /\ UNCHANGED <<ask, hung, owner, inbox, outbox, clock, serverVars, scmVars>>
  /\ Meet

\* The connect budget is used up.
Spent(c) == cclock[c] >= Budget[c]

\* Without the pipe's name, ClientError::ServiceUnavailable.
Unavailable(c) ==
  /\ cpc[c] = "open" /\ Spent(c) /\ owner = Nil
  /\ Return(c) /\ UNCHANGED pipeVars /\ Meet

\* With it, ClientError::Busy.
Busy(c) ==
  /\ cpc[c] = "open" /\ Spent(c)
  /\ owner # Nil /\ phase # "listen"
  /\ Return(c) /\ UNCHANGED pipeVars /\ Meet

Send(c) ==
  /\ cpc[c] = "send" /\ ~hung[c] /\ peer = c
  /\ cpc' = [cpc EXCEPT ![c] = "read"]
  /\ inbox' = ask[c]
  /\ UNCHANGED <<ask, cclock, hung, owner, phase, peer, outbox, clock,
                 serverVars, scmVars, met>>

\* The answer, an error or not: read, and the handle closed.
Receive(c) ==
  /\ cpc[c] = "read" /\ ~hung[c] /\ peer = c /\ outbox # Nil
  /\ outbox' = Nil
  /\ Return(c)
  /\ UNCHANGED <<owner, phase, peer, inbox, clock>>
  /\ Meet

\* (fault) a read that nothing will complete is waited for
Broken_InSend(c) ==
  /\ cpc[c] = "send" /\ ~hung[c] /\ peer # c
  /\ Return(c) /\ UNCHANGED pipeVars /\ Meet

\* ClientError::Io: the server has disconnected
Broken(c) ==
  /\ cpc[c] \in {"send", "read"} /\ ~hung[c] /\ peer # c
  /\ Return(c) /\ UNCHANGED pipeVars /\ Meet

TimesOut(c) ==
  /\ cpc[c] = "read" /\ ~hung[c] /\ peer = c /\ outbox = Nil
  /\ cclock[c] >= ask[c].window + Margin
  /\ Return(c) /\ UNCHANGED pipeVars /\ Meet

ClientStep(c) ==
  \/ Open(c) \/ Unavailable(c) \/ Busy(c) \/ Send(c)
  \/ Receive(c) \/ Broken(c) \/ TimesOut(c)

Hang(c) ==
  /\ cpc[c] \in {"send", "read"} /\ ~hung[c]
  /\ hung' = [hung EXCEPT ![c] = TRUE]
  /\ UNCHANGED <<cpc, ask, cclock, serverVars, scmVars, pipeVars, met>>

Quit(c) == cpc[c] # "idle" /\ Return(c) /\ UNCHANGED pipeVars /\ Meet

-----------------------------------------------------------------------------
(* Time *)

\* (fault) the difference is not saturated
Left_Wraps(n) == n - 1

Left(n) == IF n > 0 THEN n - 1 ELSE 0

Waiting(s) ==
  CASE pc[s] = "down" -> TRUE
    [] pc[s] = "top" -> FALSE
    [] pc[s] \in {"pause", "backoff"} -> rest[s] > 0
    [] OTHER ->
         CASE phase = "listen" -> ~StopSeen(s)
           [] phase = "read" ->
                inbox = Nil /\ ~Gone /\ clock < IoDeadline /\ ~StopSeen(s)
           [] phase = "capture" -> clock < inbox.window + Late
           [] phase = "push" ->
                outbox # Nil /\ ~Gone /\ clock < IoDeadline /\ ~StopSeen(s)
           [] phase = "drain" -> ~Gone /\ clock < IoDeadline /\ ~StopSeen(s)
           [] OTHER -> FALSE

CWaiting(c) ==
  \/ cpc[c] = "idle"
  \/ cpc[c] = "open" /\ phase # "listen" /\ ~Spent(c)
  \/ cpc[c] \in {"send", "read"} /\ hung[c]
  \/ /\ cpc[c] = "read" /\ peer = c /\ outbox = Nil
     /\ cclock[c] < ask[c].window + Margin

Tick ==
  /\ ~raising
  /\ \A s \in Server : Waiting(s)
  /\ \A c \in Client : CWaiting(c)
  /\ rest' = [s \in Server |-> Left(rest[s])]
  /\ overdue' = IF stop /\ overdue < LastTick THEN overdue + 1 ELSE overdue
  /\ clock' = IF phase \in {"read", "capture", "push", "drain"} THEN clock + 1 ELSE clock
  /\ cclock' = [c \in Client |->
                  IF cpc[c] = "idle" THEN 0
                  ELSE IF hung[c] THEN cclock[c] ELSE cclock[c] + 1]
  /\ UNCHANGED <<pc, scm, raising, stop, owner, phase, peer, inbox, outbox,
                 cpc, ask, hung, met>>

Next ==
  \/ \E s \in Server : ServerStep(s) \/ Start(s) \/ Crash(s)
  \/ \E c \in Client : ClientStep(c) \/ Ask(c) \/ Hang(c) \/ Quit(c)
  \/ StopControl
  \/ RaiseStop
  \/ Tick

Spec == Init /\ [][Next]_vars

\* Threads run, calls return and time passes; nobody has to ask, quit or stop.
Fairness ==
  /\ WF_vars(Tick)
  /\ WF_vars(RaiseStop)
  /\ \A s \in Server : WF_vars(ServerStep(s))
  /\ \A c \in Client : WF_vars(ClientStep(c))

FairSpec == Spec /\ Fairness

-----------------------------------------------------------------------------
(* Properties *)

\* The server that holds the pipe is the one that serves, and what the pipe
\* holds belongs to the client at its other end: no request outlives the client
\* that sent it, and nobody reads the answer to another's (serve_one_request
\* makes the instance anew for every client, FIRST_PIPE_INSTANCE keeps it alone).
OwnAnswer ==
  /\ \A s \in Server : pc[s] = "serve" <=> owner = s
  /\ phase \in {"none", "listen"} => inbox = Nil /\ outbox = Nil
  /\ \A c \in Client :
       peer = c /\ cpc[c] = "send" => inbox = Nil /\ outbox = Nil
  /\ \A c \in Client : peer = c /\ cpc[c] = "read" =>
       inbox \in {Nil, ask[c]} /\ outbox \in {Nil, ask[c]}

\* A service told to stop is gone before the wait hint it gave is over, a
\* capture in flight included: the cap on the window is what bounds it
\* (betterfleet_capture_service.rs:123-126).
StopsWithinHint == overdue <= Hint

\* An answer in the pipe is not thrown away under a client that is reading:
\* only a stop or the end of the server cuts it off (service_ipc.rs:448-458).
AnswerIsKept ==
  [][\A c \in Client :
       /\ peer = c /\ cpc[c] = "read" /\ ~hung[c] /\ outbox # Nil
       /\ peer' # c /\ cpc'[c] = "read"
       => stop \/ pc'[owner] = "down"]_vars

\* A client that finds the pipe's name missing, and calls the service absent,
\* met more than the gap between two clients: at some point no server was up and
\* rotating, because it was down or backing off from a pipe it could not make or
\* connect, or the service was with another client (the retry of request_capture
\* outlasts the cooldown, not the backoff).
GapIsRiddenOut == [][\A c \in Client : Unavailable(c) => met[c] # {}]_vars

\* Nobody is held for ever: a stop ends the service whatever its client does, and a
\* call of a client that has not hung returns whatever the service does
\* (complete_overlapped, service_ipc.rs).
NobodyIsHeld ==
  /\ stop ~> pc[Service] = "down"
  /\ \A c \in Client : cpc[c] # "idle" ~> cpc[c] = "idle" \/ hung[c]
==============================================================================
