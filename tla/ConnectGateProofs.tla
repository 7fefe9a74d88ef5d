------------------------- MODULE ConnectGateProofs -------------------------
(***************************************************************************)
(* Proofs about ConnectGate, for any number of connections and any         *)
(* timeout and validity: types, tokens that are valid are kept, and the    *)
(* bounds, below and above, on when a silent connection is closed.         *)
(***************************************************************************)
EXTENDS ConnectGate, FiniteSetTheorems, SequenceTheorems, TLAPS

\* The cases of a step, named once.
LEMMA Steps ==
  ASSUME [Next]_vars
  PROVE  \/ UNCHANGED vars
         \/ Tick
         \/ \E c \in Conn : Register(c) \/ OnOpen(c)
         \/ \E c \in Conn : TaskStarts(c) \/ TaskSkipped(c) \/ TaskWakes(c) \/ TaskCloses(c)
         \/ \E c \in Conn : ReceiveConnect(c) \/ RefuseToken(c) \/ RefuseClient(c)
         \/ \E c \in Conn : IgnoreNameless(c) \/ PassGates(c) \/ TakeSeat(c) \/ TurnAway(c)
         \/ \E c \in Conn : PeerDrops(c) \/ OnClose(c)
BY DEF Next, RunTimeouts, HandleConnect

\* The parameters are numbers.
LEMMA Parameters == Timeout \in Nat \ {0} /\ Validity \in Nat /\ MaxWait \in Nat
BY ConstantsAssumption

\* Every state of the gate has the declared types.
THEOREM GateTypes == Spec => []TypeOK
<1> USE Parameters
<1>1. Init => TypeOK
  BY EmptySeq DEF Init, TypeOK, Link, Step, Timer
<1>2. TypeOK /\ [Next]_vars => TypeOK'
  <2> SUFFICES ASSUME TypeOK, [Next]_vars PROVE TypeOK'
    OBVIOUS
  <2> USE DEF TypeOK, tokenVars, timerVars
  <2>close. ASSUME NEW c \in Conn, Close(c) PROVE link' \in [Conn -> Link]
    BY <2>close DEF Close, Link
  <2>1. CASE UNCHANGED vars
    BY <2>1 DEF vars
  <2>2. CASE Tick
    <3>1. age' \in [Conn -> 0..(Validity + 1)] /\ wait' \in [Conn -> 0..MaxWait]
      <4>1. ASSUME NEW c \in Conn
            PROVE  /\ Until(age[c] + 1, Validity + 1) \in 0..(Validity + 1)
                   /\ Until(wait[c] + 1, MaxWait) \in 0..MaxWait
        BY DEF Until
      <4>2. QED
        BY <2>2, <4>1 DEF Tick, Live
    <3>2. left' \in 0..Timeout
      <4>1. CASE ThreadFree
        BY <2>2, <4>1 DEF Tick
      <4>2. CASE ~ThreadFree
        <5>1. left > 0
          BY <2>2, <4>2 DEF Tick, MayPass, Sleeping
        <5>2. left' = left - 1
          BY <2>2, <4>2 DEF Tick
        <5>3. QED
          BY <5>1, <5>2
      <4>3. QED
        BY <4>1, <4>2
    <3>3. QED
      BY <2>2, <3>1, <3>2 DEF Tick, Live
  <2>3. ASSUME NEW c \in Conn, Register(c) \/ OnOpen(c)
        PROVE  TypeOK'
    <3>1. CASE Register(c)
      BY <3>1 DEF Register, Step
    <3>2. CASE OnOpen(c)
      <4>1. queue' \in Seq(Conn)
        BY <3>2, AppendProperties DEF OnOpen
      <4>2. QED
        BY <3>2, <4>1 DEF OnOpen, Step, Link, Timer
    <3>3. QED
      BY <2>3, <3>1, <3>2
  <2>4. ASSUME NEW c \in Conn, TaskStarts(c) \/ TaskSkipped(c) \/ TaskWakes(c) \/ TaskCloses(c)
        PROVE  TypeOK'
    <3>1. CASE TaskStarts(c) \/ TaskSkipped(c)
      <4>1. queue' \in Seq(Conn)
        BY <3>1, HeadTailProperties DEF TakesTask, TaskStarts, TaskSkipped
      <4>2. CASE TaskStarts(c)
        BY <4>1, <4>2 DEF TakesTask, TaskStarts, Timer
      <4>3. CASE TaskSkipped(c)
        BY <4>1, <4>3 DEF TakesTask, TaskSkipped
      <4>4. QED
        BY <3>1, <4>2, <4>3
    <3>2. CASE TaskWakes(c)
      BY <3>2 DEF TaskWakes, Timer
    <3>3. CASE TaskCloses(c)
      BY <3>3, <2>close DEF TaskCloses, Timer
    <3>4. QED
      BY <2>4, <3>1, <3>2, <3>3
  <2>5. ASSUME NEW c \in Conn, ReceiveConnect(c) \/ RefuseToken(c) \/ RefuseClient(c)
        PROVE  TypeOK'
    <3>1. CASE ReceiveConnect(c)
      BY <3>1 DEF ReceiveConnect, Cancel, Step, Timer
    <3>2. CASE RefuseToken(c)
      BY <3>2, <2>close DEF RefuseToken, Done, Step
    <3>3. CASE RefuseClient(c)
      BY <3>3, <2>close DEF RefuseClient, Consume, Done, Step
    <3>4. QED
      BY <2>5, <3>1, <3>2, <3>3
  <2>6. ASSUME NEW c \in Conn, IgnoreNameless(c) \/ PassGates(c) \/ TakeSeat(c) \/ TurnAway(c)
        PROVE  TypeOK'
    <3>1. CASE IgnoreNameless(c)
      BY <3>1 DEF IgnoreNameless, Consume, Done, Step
    <3>2. CASE PassGates(c)
      BY <3>2 DEF PassGates, Consume, Step
    <3>3. CASE TakeSeat(c)
      BY <3>3 DEF TakeSeat, Done, Step
    <3>4. CASE TurnAway(c)
      BY <3>4, <2>close DEF TurnAway, Done, Step
    <3>5. QED
      BY <2>6, <3>1, <3>2, <3>3, <3>4
  <2>7. CASE \E c \in Conn : PeerDrops(c) \/ OnClose(c)
    BY <2>7 DEF PeerDrops, OnClose, Link
  <2>8. QED
    BY <2>1, <2>2, <2>3, <2>4, <2>5, <2>6, <2>7, Steps
<1>3. QED
  BY <1>1, <1>2, PTL DEF Spec

-----------------------------------------------------------------------------
\* The token of a client that has not been answered is in the map while valid.
Usable == \A c \in Conn : step[c] \in {"registered", "silent", "checking"} /\ Valid(c)
                            => c \in tokens

\* No step loses a usable token.
LEMMA UsableKept == Spec => []Usable
<1>1. Init => Usable
  BY DEF Init, Usable
<1>2. TypeOK /\ Usable /\ [Next]_vars => Usable'
  <2> SUFFICES ASSUME TypeOK, Usable, [Next]_vars PROVE Usable'
    OBVIOUS
  <2> USE DEF TypeOK, Usable, Valid, tokenVars, timerVars
  <2>1. CASE UNCHANGED vars
    BY <2>1 DEF vars
  <2>2. CASE Tick
    <3>1. ASSUME NEW c \in Conn, age'[c] <= Validity PROVE age[c] <= Validity
      BY <2>2, <3>1, Parameters DEF Tick, Live, Until
    <3>2. QED
      BY <2>2, <3>1 DEF Tick, Live
  <2>3. CASE \E c \in Conn : Register(c) \/ OnOpen(c)
    BY <2>3 DEF Register, OnOpen
  <2>4. CASE \E c \in Conn : TaskStarts(c) \/ TaskSkipped(c) \/ TaskWakes(c) \/ TaskCloses(c)
    BY <2>4 DEF TakesTask, TaskStarts, TaskSkipped, TaskWakes, TaskCloses
  <2>5. ASSUME NEW c \in Conn, ReceiveConnect(c) \/ RefuseToken(c) \/ RefuseClient(c)
        PROVE  Usable'
    <3>1. CASE ReceiveConnect(c)
      BY <3>1 DEF ReceiveConnect, Silent
    <3>2. CASE RefuseToken(c)
      BY <3>2 DEF RefuseToken, Done
    <3>3. CASE RefuseClient(c)
      <4>1. step'[c] = "done" /\ tokens' = tokens \ {c}
        BY <3>3 DEF RefuseClient, Consume, Done
      <4>2. \A d \in Conn \ {c} : step'[d] = step[d] /\ age'[d] = age[d]
        BY <3>3 DEF RefuseClient, Consume, Done
      <4>3. QED
        BY <4>1, <4>2
    <3>4. QED
      BY <2>5, <3>1, <3>2, <3>3
  <2>6. CASE \E c \in Conn : IgnoreNameless(c) \/ PassGates(c) \/ TakeSeat(c) \/ TurnAway(c)
    BY <2>6 DEF IgnoreNameless, PassGates, TakeSeat, TurnAway, Consume, Done
  <2>7. CASE \E c \in Conn : PeerDrops(c) \/ OnClose(c)
    BY <2>7 DEF PeerDrops, OnClose
  <2>8. QED
    BY <2>1, <2>2, <2>3, <2>4, <2>5, <2>6, <2>7, Steps
<1>3. QED
  BY <1>1, <1>2, GateTypes, PTL DEF Spec

\* A CONNECT made while its token is valid is never refused for the token,
\* whoever registered in the meantime.
THEOREM FreshTokens == Spec => FreshTokenAccepted
<1>1. Usable => [\A c \in Conn : RefuseToken(c) => ~Valid(c)]_vars
  BY DEF Usable, RefuseToken
<1>2. QED
  BY <1>1, UsableKept, PTL DEF FreshTokenAccepted
-----------------------------------------------------------------------------
\* The thread runs one task at a time, a task that waits is in its queue, and a
\* silent connection has a task that was neither cancelled nor run.
OneTask == \A c, d \in Conn :
  timer[c] \in {"asleep", "awake"} /\ timer[d] \in {"asleep", "awake"} => c = d

Enqueued == \A c \in Conn : timer[c] = "queued" => \E i \in 1..Len(queue) : queue[i] = c

Unopened == \A c \in Conn : step[c] \in {"new", "registered"} => timer[c] = "none" /\ wait[c] = 0

Armed == \A c \in Conn : Silent(c) => timer[c] \in {"queued", "asleep", "awake"}

Thread == OneTask /\ Enqueued /\ Unopened /\ Armed

\* The shared thread never loses or doubles a task.
LEMMA ThreadKept == Spec => []Thread
<1>1. Init => Thread
  BY DEF Init, Thread, OneTask, Enqueued, Unopened, Armed, Silent
<1>2. TypeOK /\ Thread /\ [Next]_vars => Thread'
  <2> SUFFICES ASSUME TypeOK, Thread, [Next]_vars PROVE Thread'
    OBVIOUS
  <2> USE DEF TypeOK, Thread, OneTask, Enqueued, Unopened, Armed, tokenVars, timerVars
  <2>1. CASE UNCHANGED vars
    BY <2>1 DEF vars, Silent
  <2>2. CASE Tick
    <3>1. UNCHANGED <<link, step, timer, queue>>
      BY <2>2 DEF Tick, Live
    <3>2. \A c \in Conn : ~Silent(c) => wait'[c] = 0
      BY <2>2 DEF Tick, Live
    <3>3. QED
      BY <3>1, <3>2 DEF Silent
  <2>3. ASSUME NEW c \in Conn, Register(c) \/ OnOpen(c)
        PROVE  Thread'
    <3>1. CASE Register(c)
      BY <3>1 DEF Register, Silent
    <3>2. CASE OnOpen(c)
      <4>1. /\ Len(queue') = Len(queue) + 1 /\ queue'[Len(queue) + 1] = c
            /\ \A i \in 1..Len(queue) : queue'[i] = queue[i]
            /\ Len(queue) \in Nat
        BY <3>2, AppendProperties DEF OnOpen
      <4>2. Enqueued'
        BY <3>2, <4>1 DEF OnOpen
      <4>3. OneTask' /\ Unopened' /\ Armed'
        BY <3>2 DEF OnOpen, Silent
      <4>4. QED
        BY <4>2, <4>3
    <3>3. QED
      BY <2>3, <3>1, <3>2
  <2>4. ASSUME NEW c \in Conn, TaskStarts(c) \/ TaskSkipped(c) \/ TaskWakes(c) \/ TaskCloses(c)
        PROVE  Thread'
    <3>taken. ASSUME TakesTask(c), timer'[c] # "queued",
                     \A d \in Conn \ {c} : timer'[d] = timer[d]
              PROVE  Enqueued'
      <4>1. /\ queue' = Tail(queue) /\ queue # <<>> /\ Len(queue) \in Nat \ {0}
            /\ queue[1] = c
        BY <3>taken, EmptySeq DEF TakesTask
      <4>2. Len(queue') = Len(queue) - 1 /\ \A i \in 1..Len(queue') : queue'[i] = queue[i + 1]
        BY <4>1, HeadTailProperties
      <4>3. SUFFICES ASSUME NEW d \in Conn, timer'[d] = "queued"
                     PROVE  \E i \in 1..Len(queue') : queue'[i] = d
        OBVIOUS
      <4>4. PICK i \in 1..Len(queue) : queue[i] = d
        BY <3>taken, <4>3
      <4>5. i - 1 \in 1..Len(queue') /\ queue'[i - 1] = d
        BY <3>taken, <4>1, <4>2, <4>3, <4>4
      <4>6. QED
        BY <4>5
    <3>1. CASE TaskStarts(c)
      <4>1. Enqueued'
        BY <3>1, <3>taken DEF TaskStarts
      <4>2. OneTask' /\ Unopened' /\ Armed'
        BY <3>1 DEF TaskStarts, TakesTask, ThreadFree, Silent
      <4>3. QED
        BY <4>1, <4>2
    <3>2. CASE TaskSkipped(c)
      <4>1. Enqueued'
        BY <3>2, <3>taken DEF TaskSkipped
      <4>2. OneTask' /\ Unopened' /\ Armed'
        BY <3>2 DEF TaskSkipped, TakesTask, Silent
      <4>3. QED
        BY <4>1, <4>2
    <3>3. CASE TaskWakes(c)
      BY <3>3 DEF TaskWakes, Silent
    <3>4. CASE TaskCloses(c)
      <4>1. link'[c] # "open" /\ \A d \in Conn \ {c} : link'[d] = link[d]
        BY <3>4 DEF TaskCloses, Close
      <4>2. timer'[c] = "off" /\ \A d \in Conn \ {c} : timer'[d] = timer[d]
        BY <3>4 DEF TaskCloses
      <4>3. UNCHANGED <<step, wait, queue>>
        BY <3>4 DEF TaskCloses
      <4>4. timer[c] # "none"
        BY <3>4 DEF TaskCloses
      <4>5. QED
        BY <4>1, <4>2, <4>3, <4>4 DEF Silent
    <3>5. QED
      BY <2>4, <3>1, <3>2, <3>3, <3>4
  <2>5. ASSUME NEW c \in Conn, ReceiveConnect(c)
        PROVE  Thread'
    <3>1. /\ step'[c] = "checking" /\ timer'[c] \notin {"queued", "asleep"}
          /\ timer'[c] \in {timer[c], "off"}
          /\ \A d \in Conn \ {c} : step'[d] = step[d] /\ timer'[d] = timer[d] /\ wait'[d] = wait[d]
      BY <2>5 DEF ReceiveConnect, Cancel
    <3>2. UNCHANGED <<link, queue>>
      BY <2>5 DEF ReceiveConnect
    <3>3. QED
      BY <3>1, <3>2 DEF Silent
  <2>6. ASSUME NEW c \in Conn, HandleConnect(c) \/ PeerDrops(c) \/ OnClose(c)
        PROVE  Thread'
    <3>1. UNCHANGED <<wait, timer, queue>>
      BY <2>6 DEF HandleConnect, RefuseToken, RefuseClient, IgnoreNameless, PassGates, TakeSeat,
         TurnAway, Consume, PeerDrops, OnClose
    <3>2. \A d \in Conn : step'[d] # step[d] => step'[d] \in {"seating", "done"}
      BY <2>6 DEF HandleConnect, RefuseToken, RefuseClient, IgnoreNameless, PassGates, TakeSeat,
         TurnAway, Consume, Done, PeerDrops, OnClose
    <3>3. \A d \in Conn : link'[d] = "open" => link[d] = "open"
      BY <2>6 DEF HandleConnect, RefuseToken, RefuseClient, IgnoreNameless, PassGates, TakeSeat,
         TurnAway, Consume, Done, Close, PeerDrops, OnClose
    <3>4. QED
      BY <3>1, <3>2, <3>3 DEF Silent
  <2>7. QED
    BY <2>1, <2>2, <2>3, <2>4, <2>5, <2>6, Steps DEF HandleConnect
<1>3. QED
  BY <1>1, <1>2, GateTypes, PTL DEF Spec

-----------------------------------------------------------------------------
\* The longest wait there can be is longer than one timeout.
LEMMA OneTimeout ==
  ASSUME NEW c \in Conn
  PROVE  Timeout < MaxWait
<1>1. Cardinality(Conn) \in Nat /\ Cardinality(Conn) # 0
  BY ConstantsAssumption, FS_CardinalityType, FS_EmptySet
<1>2. \A t \in Nat, n \in Nat \ {0} : t <= t * n
  OBVIOUS
<1>3. Timeout <= Timeout * Cardinality(Conn)
  BY <1>1, <1>2, Parameters
<1>4. Timeout * Cardinality(Conn) \in Nat
  BY <1>1, Parameters
<1>5. MaxWait > Timeout * Cardinality(Conn)
  BY ConstantsAssumption
<1>6. QED
  BY <1>3, <1>4, <1>5, Parameters

\* A connection that is silent after a step was so before, with the same wait
\* unless time passed, or has just been opened.
LEMMA Patience ==
  ASSUME TypeOK, [Next]_vars, NEW c \in Conn, Silent(c)'
  PROVE  \/ OnOpen(c)
         \/ Silent(c) /\ (Tick \/ wait'[c] = wait[c])
<1> USE DEF TypeOK, Silent, tokenVars, timerVars
<1>1. CASE UNCHANGED vars
  BY <1>1 DEF vars
<1>2. CASE Tick
  BY <1>2 DEF Tick, Live
<1>3. ASSUME NEW d \in Conn, Register(d) \/ OnOpen(d), c # d \/ ~OnOpen(d)
      PROVE  Silent(c) /\ wait'[c] = wait[c]
  BY <1>3 DEF Register, OnOpen
<1>4. ASSUME NEW d \in Conn, RunTimeouts(d)
      PROVE  Silent(c) /\ wait'[c] = wait[c]
  BY <1>4 DEF RunTimeouts, TakesTask, TaskStarts, TaskSkipped, TaskWakes, TaskCloses, Close
<1>5. ASSUME NEW d \in Conn, ReceiveConnect(d)
      PROVE  Silent(c) /\ wait'[c] = wait[c]
  BY <1>5 DEF ReceiveConnect
<1>6. ASSUME NEW d \in Conn, HandleConnect(d) \/ PeerDrops(d) \/ OnClose(d)
      PROVE  Silent(c) /\ wait'[c] = wait[c]
  <2>1. UNCHANGED wait
    BY <1>6 DEF HandleConnect, RefuseToken, RefuseClient, IgnoreNameless, PassGates, TakeSeat,
       TurnAway, Consume, PeerDrops, OnClose
  <2>2. \A e \in Conn : step'[e] # step[e] => step'[e] \in {"seating", "done"}
    BY <1>6 DEF HandleConnect, RefuseToken, RefuseClient, IgnoreNameless, PassGates, TakeSeat,
       TurnAway, Consume, Done, PeerDrops, OnClose
  <2>3. \A e \in Conn : link'[e] = "open" => link[e] = "open"
    BY <1>6 DEF HandleConnect, RefuseToken, RefuseClient, IgnoreNameless, PassGates, TakeSeat,
       TurnAway, Consume, Done, Close, PeerDrops, OnClose
  <2>4. QED
    BY <2>1, <2>2, <2>3
<1>7. QED
  BY <1>1, <1>2, <1>3, <1>4, <1>5, <1>6 DEF Next

\* What a step does to the tasks: only the thread and the CONNECT handler touch
\* a task that was submitted, and only the thread the sleep.
LEMMA Tasks ==
  ASSUME TypeOK, [Next]_vars
  PROVE  \/ Tick
         \/ \E d \in Conn : OnOpen(d) \/ TaskStarts(d) \/ TaskWakes(d) \/ TaskCloses(d) \/ ReceiveConnect(d)
         \/ UNCHANGED <<timer, left>>
<1> USE DEF tokenVars, timerVars
<1>1. CASE UNCHANGED vars
  BY <1>1 DEF vars
<1>2. ASSUME NEW d \in Conn, Register(d) \/ TaskSkipped(d) \/ HandleConnect(d) \/ PeerDrops(d) \/ OnClose(d)
      PROVE  UNCHANGED <<timer, left>>
  BY <1>2 DEF Register, TaskSkipped, HandleConnect, RefuseToken, RefuseClient, IgnoreNameless,
     PassGates, TakeSeat, TurnAway, Consume, PeerDrops, OnClose
<1>3. QED
  BY <1>1, <1>2 DEF Next, RunTimeouts

\* The task of a silent connection sleeps its whole timeout.
SleepsLongEnough == \A c \in Conn : Silent(c) =>
  /\ timer[c] = "asleep" => wait[c] + left >= Timeout
  /\ timer[c] = "awake" => wait[c] >= Timeout

\* No step shortens a sleep.
LEMMA SleepKept == Spec => []SleepsLongEnough
<1>1. Init => SleepsLongEnough
  BY DEF Init, SleepsLongEnough, Silent
<1>2. TypeOK /\ Thread /\ SleepsLongEnough /\ [Next]_vars => SleepsLongEnough'
  <2> SUFFICES ASSUME TypeOK, Thread, SleepsLongEnough, [Next]_vars, NEW c \in Conn, Silent(c)'
               PROVE  /\ timer'[c] = "asleep" => wait'[c] + left' >= Timeout
                      /\ timer'[c] = "awake" => wait'[c] >= Timeout
    BY DEF SleepsLongEnough
  <2> USE Parameters DEF TypeOK, SleepsLongEnough
  <2>1. CASE OnOpen(c)
    BY <2>1 DEF OnOpen
  <2>2. CASE Silent(c) /\ Tick
    <3>1. wait'[c] = Until(wait[c] + 1, MaxWait) /\ timer'[c] = timer[c]
      BY <2>2 DEF Tick, Live
    <3>2. wait'[c] >= Timeout \/ wait'[c] = wait[c] + 1
      BY <3>1, OneTimeout DEF Until
    <3>3. CASE timer[c] = "asleep"
      <4>1. ~ThreadFree
        BY <3>3 DEF ThreadFree
      <4>2. left > 0 /\ left' = left - 1
        BY <2>2, <4>1 DEF Tick, MayPass, Sleeping
      <4>3. wait[c] + left >= Timeout
        BY <2>2, <3>3
      <4>4. wait[c] \in Nat /\ left \in Nat /\ wait'[c] \in Nat
        BY <3>1 DEF Until
      <4>5. wait'[c] + left' >= Timeout
        BY <3>2, <4>2, <4>3, <4>4
      <4>6. QED
        BY <3>1, <3>3, <4>5
    <3>4. CASE timer[c] # "asleep"
      <4>1. timer[c] = "awake" => wait[c] >= Timeout
        BY <2>2
      <4>2. QED
        BY <3>1, <3>2, <3>4, <4>1
    <3>5. QED
      BY <3>3, <3>4
  <2>3. CASE Silent(c) /\ ~Tick /\ ~OnOpen(c) /\ wait'[c] = wait[c]
    <3>1. ASSUME NEW d \in Conn, OnOpen(d) \/ TaskWakes(d) \/ TaskCloses(d) \/ ReceiveConnect(d)
          PROVE  /\ timer'[c] = "asleep" => wait'[c] + left' >= Timeout
                 /\ timer'[c] = "awake" => wait'[c] >= Timeout
      <4>1. CASE OnOpen(d)
        BY <2>3, <4>1 DEF OnOpen
      <4>2. CASE TaskWakes(d)
        BY <2>3, <4>2 DEF TaskWakes
      <4>3. CASE TaskCloses(d)
        BY <2>3, <4>3 DEF TaskCloses
      <4>4. CASE ReceiveConnect(d)
        BY <2>3, <4>4 DEF ReceiveConnect, Cancel
      <4>5. QED
        BY <3>1, <4>1, <4>2, <4>3, <4>4
    <3>2. ASSUME NEW d \in Conn, TaskStarts(d)
          PROVE  /\ timer'[c] = "asleep" => wait'[c] + left' >= Timeout
                 /\ timer'[c] = "awake" => wait'[c] >= Timeout
      BY <2>3, <3>2 DEF TaskStarts, TakesTask, ThreadFree
    <3>3. CASE UNCHANGED <<timer, left>>
      BY <2>3, <3>3
    <3>4. QED
      BY <2>3, <3>1, <3>2, <3>3, Tasks
  <2>4. QED
    BY <2>1, <2>2, <2>3, Patience
<1>3. QED
  BY <1>1, <1>2, GateTypes, ThreadKept, PTL DEF Spec

\* The timeout never closes a connection that was not given its whole second.
THEOREM TimedOutInTime == Spec => NotTimedOutEarly
<1>1. SleepsLongEnough => [\A c \in Conn : TaskCloses(c) /\ Silent(c) => wait[c] >= Timeout]_vars
  BY DEF SleepsLongEnough, TaskCloses
<1>2. QED
  BY <1>1, SleepKept, PTL DEF NotTimedOutEarly

-----------------------------------------------------------------------------
\* The time the thread may have slept when it started the tasks of S.
Budget(S) == Timeout * Cardinality(S)

Started == {d \in Conn : timer[d] \notin {"none", "queued"}}

Pending == IF \E d \in Conn : timer[d] = "asleep" THEN left ELSE 0

\* A started task adds one timeout to the budget, which all connections bound.
LEMMA Budgets ==
  ASSUME NEW S \in SUBSET Conn
  PROVE  /\ Budget(S) \in Nat
         /\ Budget(S) <= Budget(Conn)
         /\ S # {} => Timeout <= Budget(S)
         /\ \A d \in Conn \ S : Budget(S \cup {d}) = Budget(S) + Timeout
<1>1. IsFiniteSet(Conn)
  BY ConstantsAssumption
<1>2. IsFiniteSet(S) /\ Cardinality(S) <= Cardinality(Conn)
  BY <1>1, FS_Subset
<1>3. Cardinality(S) \in Nat /\ Cardinality(Conn) \in Nat /\ (Cardinality(S) = 0 <=> S = {})
  BY <1>1, <1>2, FS_CardinalityType, FS_EmptySet
<1>4. \A d \in Conn \ S : Cardinality(S \cup {d}) = Cardinality(S) + 1
  BY <1>2, FS_AddElement
<1>5. \A t, m, n \in Nat : m <= n => t * m <= t * n
  OBVIOUS
<1>6. \A t, n \in Nat : t * n \in Nat /\ t * (n + 1) = t * n + t /\ (n # 0 => t <= t * n)
  OBVIOUS
<1>7. Budget(S) \in Nat /\ Budget(S) <= Budget(Conn)
  BY <1>2, <1>3, <1>5, <1>6, Parameters DEF Budget
<1>8. S # {} => Timeout <= Budget(S)
  BY <1>3, <1>6, Parameters DEF Budget
<1>9. \A d \in Conn \ S : Budget(S \cup {d}) = Budget(S) + Timeout
  BY <1>3, <1>4, <1>6, Parameters DEF Budget
<1>10. QED
  BY <1>7, <1>8, <1>9

\* The sleep under way belongs to a task that started.
LEMMA PendingBudget ==
  ASSUME TypeOK
  PROVE  Pending \in Nat /\ Pending <= Budget(Started)
<1>1. Pending \in Nat /\ Pending <= Timeout
  BY Parameters DEF Pending, TypeOK
<1>2. (\E d \in Conn : timer[d] = "asleep") => Started # {}
  BY DEF Started
<1>3. Started \in SUBSET Conn
  BY DEF Started
<1>4. Budget(Started) \in Nat /\ (Started # {} => Timeout <= Budget(Started))
  BY <1>3, Budgets
<1>5. CASE \E d \in Conn : timer[d] = "asleep"
  BY <1>1, <1>2, <1>4, <1>5, Parameters
<1>6. CASE ~ \E d \in Conn : timer[d] = "asleep"
  BY <1>4, <1>6 DEF Pending
<1>7. QED
  BY <1>1, <1>5, <1>6

\* A connection has waited for the tasks that started, less the sleep under way.
WithinBudget == \A c \in Conn : Silent(c) => wait[c] + Pending <= Budget(Started)

\* While somebody is silent, time passes only in a sleep its budget counts.
LEMMA BudgetKept == Spec => []WithinBudget
<1>1. Init => WithinBudget
  BY DEF Init, WithinBudget, Silent
<1>2. TypeOK /\ TypeOK' /\ Thread /\ WithinBudget /\ [Next]_vars => WithinBudget'
  <2> SUFFICES ASSUME TypeOK, TypeOK', Thread, WithinBudget, [Next]_vars, NEW c \in Conn, Silent(c)'
               PROVE  wait'[c] + Pending' <= Budget(Started')
    BY DEF WithinBudget, Started, Budget
  <2>s. Started \in SUBSET Conn
    BY DEF Started
  <2>b. Budget(Started) \in Nat /\ Pending \in Nat /\ Pending <= Budget(Started)
    BY <2>s, Budgets, PendingBudget
  <2>w. wait[c] \in Nat /\ wait'[c] \in Nat /\ left \in Nat /\ left' \in Nat
    BY Parameters DEF TypeOK
  <2>1. CASE OnOpen(c)
    <3>1. wait'[c] = 0 /\ timer[c] = "none"
      BY <2>1 DEF OnOpen, Thread, Unopened, TypeOK
    <3>2. Started' = Started /\ Pending' = Pending
      BY <2>1, <3>1 DEF OnOpen, Started, Pending, TypeOK
    <3>3. QED
      BY <2>b, <3>1, <3>2
  <2>2. CASE Silent(c) /\ Tick
    <3>1. UNCHANGED <<timer, queue>> /\ wait'[c] <= wait[c] + 1
      BY <2>2, <2>w, Parameters DEF Tick, Live, Until
    <3>2. Started' = Started
      BY <3>1 DEF Started
    <3>3. \E d \in Conn : Sleeping(d)
      <4>1. CASE ThreadFree
        <5>1. queue = <<>> /\ timer[c] = "queued"
          BY <2>2, <4>1 DEF Tick, MayPass, ThreadFree, Thread, Armed
        <5>2. \A i \in 1..Len(queue) : FALSE
          BY <5>1, EmptySeq
        <5>3. QED
          BY <5>1, <5>2 DEF Thread, Enqueued
      <4>2. CASE ~ThreadFree
        BY <2>2, <4>2 DEF Tick, MayPass
      <4>3. QED
        BY <4>1, <4>2
    <3>4. Pending = left /\ Pending' = left' /\ left' = left - 1
      BY <2>2, <3>1, <3>3 DEF Pending, Sleeping, ThreadFree, Tick
    <3>5. wait[c] + Pending <= Budget(Started)
      BY <2>2 DEF WithinBudget
    <3>6. QED
      BY <2>b, <2>w, <3>1, <3>2, <3>4, <3>5
  <2>3. CASE Silent(c) /\ ~Tick /\ wait'[c] = wait[c]
    <3>1. wait'[c] + Pending <= Budget(Started)
      BY <2>3 DEF WithinBudget
    <3>2. ASSUME NEW d \in Conn, TaskStarts(d) PROVE wait'[c] + Pending' <= Budget(Started')
      <4>1. d \notin Started /\ Started' = Started \cup {d}
        BY <3>2 DEF TaskStarts, Started, TypeOK
      <4>2. Budget(Started') = Budget(Started) + Timeout
        BY <2>s, <4>1, Budgets
      <4>3. Pending' = Timeout
        BY <3>2 DEF TaskStarts, Pending, TypeOK
      <4>4. QED
        BY <2>b, <2>w, <3>1, <4>2, <4>3, Parameters
    <3>3. ASSUME NEW d \in Conn, OnOpen(d) \/ TaskWakes(d) \/ TaskCloses(d)
          PROVE  wait'[c] + Pending' <= Budget(Started')
      <4>1. Started' = Started
        BY <3>3 DEF OnOpen, TaskWakes, TaskCloses, Started, Thread, Unopened, TypeOK
      <4>2. Pending' = Pending
        <5>1. CASE OnOpen(d)
          BY <5>1 DEF OnOpen, Pending, Thread, Unopened, TypeOK
        <5>2. CASE TaskWakes(d)
          BY <5>2 DEF TaskWakes, Pending, TypeOK
        <5>3. CASE TaskCloses(d)
          BY <5>3 DEF TaskCloses, Pending, TypeOK
        <5>4. QED
          BY <3>3, <5>1, <5>2, <5>3
      <4>3. QED
        BY <3>1, <4>1, <4>2
    <3>4. ASSUME NEW d \in Conn, ReceiveConnect(d) PROVE wait'[c] + Pending' <= Budget(Started')
      <4>1. \A e \in Conn : timer'[e] = timer[e] \/ timer'[e] = "off"
        BY <3>4 DEF ReceiveConnect, Cancel, TypeOK
      <4>2. Pending' \in {Pending, 0}
        BY <3>4, <4>1 DEF ReceiveConnect, Pending
      <4>3. Started' = Started \/ (d \notin Started /\ Started' = Started \cup {d})
        <5>1. timer'[d] = IF timer[d] \in {"queued", "asleep"} THEN "off" ELSE timer[d]
          BY <3>4 DEF ReceiveConnect, Cancel, TypeOK
        <5>2. \A e \in Conn \ {d} : timer'[e] = timer[e]
          BY <3>4 DEF ReceiveConnect, Cancel, TypeOK
        <5>3. CASE timer[d] = "queued"
          BY <5>1, <5>2, <5>3 DEF Started
        <5>4. CASE timer[d] # "queued"
          BY <5>1, <5>2, <5>4 DEF Started
        <5>5. QED
          BY <5>3, <5>4
      <4>4. Budget(Started') \in {Budget(Started), Budget(Started) + Timeout}
        BY <2>s, <4>3, Budgets
      <4>5. QED
        BY <2>b, <2>w, <3>1, <4>2, <4>4, Parameters
    <3>5. CASE UNCHANGED <<timer, left>>
      <4>1. Started' = Started /\ Pending' = Pending
        BY <3>5 DEF Started, Pending
      <4>2. QED
        BY <3>1, <4>1
    <3>6. QED
      BY <2>3, <3>2, <3>3, <3>4, <3>5, Tasks
  <2>4. QED
    BY <2>1, <2>2, <2>3, Patience
<1>3. QED
  BY <1>1, <1>2, GateTypes, ThreadKept, PTL DEF Spec

\* A silent connection never waits longer than one timeout per connection.
THEOREM SilenceBounded == Spec => []SilentIsClosed
<1>1. TypeOK /\ WithinBudget => SilentIsClosed
  <2> SUFFICES ASSUME TypeOK, WithinBudget, NEW c \in Conn, Silent(c)
               PROVE  wait[c] <= Timeout * Cardinality(Conn)
    BY DEF SilentIsClosed
  <2>1. wait[c] + Pending <= Budget(Started)
    BY DEF WithinBudget
  <2>2. Started \in SUBSET Conn
    BY DEF Started
  <2>3. Budget(Started) \in Nat /\ Budget(Started) <= Budget(Conn) /\ Budget(Conn) \in Nat
    BY <2>2, Budgets
  <2>4. wait[c] \in Nat /\ Pending \in Nat
    BY PendingBudget, Parameters DEF TypeOK
  <2>5. wait[c] <= Budget(Conn)
    BY <2>1, <2>3, <2>4
  <2>6. QED
    BY <2>5 DEF Budget
<1>2. QED
  BY <1>1, BudgetKept, GateTypes, PTL
=============================================================================
