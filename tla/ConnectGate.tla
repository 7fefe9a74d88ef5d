----------------------------- MODULE ConnectGate -----------------------------
(***************************************************************************)
(* The way into the session registry: the single-use tokens a client       *)
(* registers for (SocketSecurityEntity.java), the WebSocket it opens with  *)
(* one, and the second it is given to send its CONNECT                     *)
(* (SessionSocket.onOpen, handleConnectMessage).                           *)
(*                                                                         *)
(* onOpen submits a task to ONE thread shared by every connection.  The    *)
(* task sleeps, then closes the connection; the CONNECT handler cancels    *)
(* it, which voids a task that waits, interrupts one that sleeps, and      *)
(* comes too late for one that woke up.  A connection that is closed does  *)
(* not cancel its task.                                                    *)
(*                                                                         *)
(* What the registry answers to a CONNECT is FleetSessions' subject: here  *)
(* a CONNECT that passed the gates gets a seat or is turned away.  Each    *)
(* client registers once, for the one connection it opens; time passes in  *)
(* ticks, and not while the timeout thread has something to do.            *)
(*                                                                         *)
(* Operators named X_Y and commented (fault) are not part of the model:    *)
(* each is X with the mistake Y, kept to show which property notices it.   *)
(***************************************************************************)
EXTENDS Naturals, Sequences, FiniteSets

CONSTANTS
  Conn,      \* WebSocket connections, each with the token registered for it
  Timeout,   \* ticks the timeout task of a connection sleeps
  Validity,  \* ticks a token stays valid
  MaxWait    \* bound of the ticks counted for a silent connection

ASSUME ConstantsAssumption ==
  /\ Timeout \in Nat \ {0}
  /\ Validity \in Nat
  /\ MaxWait \in Nat
  /\ IsFiniteSet(Conn)
  /\ MaxWait > Timeout * Cardinality(Conn)

VARIABLES
  tokens,  \* SocketSecurityEntity.websocketUser: the tokens not consumed yet
  age,     \* age[c]: ticks the token of c lives since it was minted, up to Validity + 1
  link,    \* link[c]: the WebSocket of c, as in FleetSessions
  step,    \* step[c]: how far the client and the handler of its CONNECT are
  wait,    \* wait[c]: ticks c has been open and silent, up to MaxWait
  timer,   \* timer[c]: the timeout task of c
  queue,   \* the tasks submitted to the thread and not started
  left,    \* ticks left to the task that sleeps
  seated   \* the connections with a seat in the registry

tokenVars == <<tokens, age>>
timerVars == <<timer, queue, left>>
vars      == <<tokens, age, link, step, wait, timer, queue, left, seated>>

Link  == {"fresh", "open", "closed", "dropped", "gone"}
Step  == {"new", "registered", "silent", "checking", "seating", "done"}
Timer == {"none", "queued", "asleep", "awake", "off"}

TypeOK ==
  /\ tokens \in SUBSET Conn
  /\ age \in [Conn -> 0..(Validity + 1)]
  /\ link \in [Conn -> Link]
  /\ step \in [Conn -> Step]
  /\ wait \in [Conn -> 0..MaxWait]
  /\ timer \in [Conn -> Timer]
  /\ queue \in Seq(Conn)
  /\ left \in 0..Timeout
  /\ seated \in SUBSET Conn

Init ==
  /\ tokens = {}
  /\ age = [c \in Conn |-> 0]
  /\ link = [c \in Conn |-> "fresh"]
  /\ step = [c \in Conn |-> "new"]
  /\ wait = [c \in Conn |-> 0]
  /\ timer = [c \in Conn |-> "none"]
  /\ queue = <<>>
  /\ left = 0
  /\ seated = {}

-----------------------------------------------------------------------------
(* Tokens *)

Valid(c) == age[c] <= Validity

\* (fault) the sweep takes the tokens in their last instant of validity
Register_SweepsEarly(c) ==
  /\ step[c] = "new"
  /\ step' = [step EXCEPT ![c] = "registered"]
  /\ tokens' = {d \in tokens \cup {c} : age[d] < Validity}
  /\ UNCHANGED <<age, link, wait, timerVars, seated>>

\* Minting a token is also the moment the expired ones are swept.
Register(c) ==
  /\ step[c] = "new"
  /\ step' = [step EXCEPT ![c] = "registered"]
  /\ tokens' = {d \in tokens \cup {c} : Valid(d)}
  /\ UNCHANGED <<age, link, wait, timerVars, seated>>

-----------------------------------------------------------------------------
(* The connection timeout *)

ThreadFree == \A c \in Conn : timer[c] \notin {"asleep", "awake"}

\* (fault) the task of a connection is dropped when the thread is busy
OnOpen_DropsTask(c) ==
  /\ step[c] = "registered"
  /\ step' = [step EXCEPT ![c] = "silent"]
  /\ link' = [link EXCEPT ![c] = "open"]
  /\ \/ /\ ThreadFree
        /\ timer' = [timer EXCEPT ![c] = "queued"]
        /\ queue' = Append(queue, c)
     \/ /\ ~ThreadFree
        /\ UNCHANGED <<timer, queue>>
  /\ UNCHANGED <<tokenVars, wait, left, seated>>

OnOpen(c) ==
  /\ step[c] = "registered"
  /\ step' = [step EXCEPT ![c] = "silent"]
  /\ link' = [link EXCEPT ![c] = "open"]
  /\ timer' = [timer EXCEPT ![c] = "queued"]
  /\ queue' = Append(queue, c)
  /\ UNCHANGED <<tokenVars, wait, left, seated>>

\* The thread takes the next task, in the order of submission.
TakesTask(c) ==
  /\ ThreadFree
  /\ queue # <<>> /\ Head(queue) = c
  /\ queue' = Tail(queue)
  /\ UNCHANGED <<tokenVars, link, step, wait, seated>>

\* (fault) the sleep is one tick short
TaskStarts_TooShort(c) ==
  /\ TakesTask(c)
  /\ timer[c] = "queued"
  /\ timer' = [timer EXCEPT ![c] = "asleep"]
  /\ left' = Timeout - 1

\* (fault) what an interrupted sleep left is slept as well
TaskStarts_AddsUp(c) ==
  /\ TakesTask(c)
  /\ timer[c] = "queued"
  /\ timer' = [timer EXCEPT ![c] = "asleep"]
  /\ left' = left + Timeout

TaskStarts(c) ==
  /\ TakesTask(c)
  /\ timer[c] = "queued"
  /\ timer' = [timer EXCEPT ![c] = "asleep"]
  /\ left' = Timeout

\* A task cancelled while it waited has nothing to run.
TaskSkipped(c) ==
  /\ TakesTask(c)
  /\ timer[c] = "off"
  /\ UNCHANGED <<timer, left>>

TaskWakes(c) ==
  /\ timer[c] = "asleep"
  /\ left = 0
  /\ timer' = [timer EXCEPT ![c] = "awake"]
  /\ UNCHANGED <<tokenVars, link, step, wait, queue, left, seated>>

Close(c) == link' = [link EXCEPT ![c] = IF @ = "open" THEN "closed" ELSE @]

TaskCloses(c) ==
  /\ timer[c] = "awake"
  /\ timer' = [timer EXCEPT ![c] = "off"]
  /\ Close(c)
  /\ UNCHANGED <<tokenVars, step, wait, queue, left, seated>>

Sleeping(c) == timer[c] = "asleep" /\ left > 0
Silent(c)   == link[c] = "open" /\ step[c] = "silent"

Until(n, bound) == IF n <= bound THEN n ELSE bound

\* Time passes while the thread sleeps or has nothing to do.
MayPass == IF ThreadFree THEN queue = <<>> ELSE \E c \in Conn : Sleeping(c)

Live ==
  /\ age' = [c \in Conn |-> IF c \in tokens THEN Until(age[c] + 1, Validity + 1) ELSE age[c]]
  /\ wait' = [c \in Conn |-> IF Silent(c) THEN Until(wait[c] + 1, MaxWait) ELSE 0]
  /\ UNCHANGED <<tokens, link, step, timer, queue, seated>>

Tick ==
  /\ MayPass
  /\ left' = IF ThreadFree THEN left ELSE left - 1
  /\ Live

-----------------------------------------------------------------------------
(* CONNECT *)

\* Future.cancel(true): a task that waits will not run, one that sleeps is
\* interrupted, one that woke up goes on.
Cancel(c) ==
  timer' = [timer EXCEPT ![c] = IF @ \in {"queued", "asleep"} THEN "off" ELSE @]

\* The handler first takes the connection's timeout task and cancels it.
ReceiveConnect(c) ==
  /\ Silent(c)
  /\ step' = [step EXCEPT ![c] = "checking"]
  /\ wait' = [wait EXCEPT ![c] = 0]
  /\ Cancel(c)
  /\ UNCHANGED <<tokenVars, link, queue, left, seated>>

Done(c) == step' = [step EXCEPT ![c] = "done"]

\* Unknown or expired token: an expired one stays for the next sweep.
RefuseToken(c) ==
  /\ step[c] = "checking"
  /\ ~(c \in tokens /\ Valid(c))
  /\ Done(c)
  /\ Close(c)
  /\ UNCHANGED <<tokenVars, wait, timerVars, seated>>

\* The token of every CONNECT that gets further is consumed.
Consume(c) ==
  /\ step[c] = "checking"
  /\ c \in tokens /\ Valid(c)
  /\ tokens' = tokens \ {c}
  /\ age' = [age EXCEPT ![c] = 0]
  /\ UNCHANGED <<wait, timerVars, seated>>

\* The CONNECT is a guest's, outside its bound session, or an out-of-date client's.
RefuseClient(c) ==
  /\ Consume(c)
  /\ Done(c)
  /\ Close(c)

\* The CONNECT carries no username: the handler returns.
IgnoreNameless(c) ==
  /\ Consume(c)
  /\ Done(c)
  /\ UNCHANGED link

PassGates(c) ==
  /\ Consume(c)
  /\ step' = [step EXCEPT ![c] = "seating"]
  /\ UNCHANGED link

\* createSession or joinSession seats the player, whatever its socket became.
TakeSeat(c) ==
  /\ step[c] = "seating"
  /\ seated' = seated \cup {c}
  /\ Done(c)
  /\ UNCHANGED <<tokenVars, link, wait, timerVars>>

\* joinSession refuses, or a lock acquisition times out.
TurnAway(c) ==
  /\ step[c] = "seating"
  /\ Done(c)
  /\ Close(c)
  /\ UNCHANGED <<tokenVars, wait, timerVars, seated>>

-----------------------------------------------------------------------------
(* The end of a connection: as in FleetSessions, a close by the peer is      *)
(* delivered behind the connection's running handler, a close by the backend *)
(* on the thread that performed it.                                          *)

PeerDrops(c) ==
  /\ link[c] = "open"
  /\ link' = [link EXCEPT ![c] = "dropped"]
  /\ UNCHANGED <<tokenVars, step, wait, timerVars, seated>>

OnClose(c) ==
  /\ \/ link[c] = "closed"
     \/ link[c] = "dropped" /\ step[c] \notin {"checking", "seating"}
  /\ link' = [link EXCEPT ![c] = "gone"]
  /\ seated' = seated \ {c}
  /\ UNCHANGED <<tokenVars, step, wait, timerVars>>

HandleConnect(c) ==
  \/ RefuseToken(c)
  \/ RefuseClient(c)
  \/ IgnoreNameless(c)
  \/ PassGates(c)
  \/ TakeSeat(c)
  \/ TurnAway(c)

RunTimeouts(c) ==
  \/ TaskStarts(c)
  \/ TaskSkipped(c)
  \/ TaskWakes(c)
  \/ TaskCloses(c)

Next ==
  \/ Tick
  \/ \E c \in Conn :
       \/ Register(c)
       \/ OnOpen(c)
       \/ RunTimeouts(c)
       \/ ReceiveConnect(c)
       \/ HandleConnect(c)
       \/ PeerDrops(c)
       \/ OnClose(c)

Spec == Init /\ [][Next]_vars

-----------------------------------------------------------------------------
(* Properties *)

\* A client that connects while its token is valid is not refused for it: the
\* sweep of another client's registration never takes a usable token
\* (SocketSecurityEntity.expire, isValid).
FreshTokenAccepted == [][\A c \in Conn : RefuseToken(c) => ~Valid(c)]_vars

\* Nobody is timed out before the time is up, whatever became of the
\* connections whose tasks ran before on the same thread (onOpen).
NotTimedOutEarly ==
  [][\A c \in Conn : TaskCloses(c) /\ Silent(c) => wait[c] >= Timeout]_vars

\* A silent connection is closed, and no later than after one timeout for every
\* connection whose task the thread may have to sleep through first, the dead
\* ones included (onOpen; handleSocketClose cancels no task).
SilentIsClosed ==
  \A c \in Conn : Silent(c) => wait[c] <= Timeout * Cardinality(Conn)
=============================================================================
