-------------------------- MODULE CapturePipeProofs --------------------------
(***************************************************************************)
(* Proofs about CapturePipe, for any clients, servers, requests and        *)
(* durations that satisfy its assumptions: whose bytes are in the pipe,    *)
(* that a stop is over within its wait hint, and that an answer is not cut *)
(* off under the client that reads it.                                     *)
(***************************************************************************)
EXTENDS CapturePipe, TLAPS

\* What is in the pipe, and whose: the answer is there from its write to the
\* close only, and a client that has not sent has found the pipe empty.
PipeInv ==
  /\ \A s \in Server : pc[s] = "serve" <=> owner = s
  /\ phase = "none" <=> owner = Nil
  /\ phase \in {"none", "listen"} <=> peer = Nil
  /\ peer = Nil => inbox = Nil
  /\ phase \in {"capture", "write", "push", "drain"} => inbox # Nil
  /\ phase \notin {"push", "drain"} => outbox = Nil
  /\ \A c \in Client : peer = c /\ cpc[c] = "send" => inbox = Nil
  /\ \A c \in Client : peer = c /\ cpc[c] = "read" =>
       inbox \in {Nil, ask[c]} /\ outbox \in {Nil, ask[c]}

\* How long a stop can have been waiting, wherever the service is.
StopInv ==
  /\ ~stop => overdue = 0
  /\ pc[Service] = "down" => ~stop /\ ~raising /\ scm # "running"
  /\ pc[Service] \in {"top", "pause"} => rest[Service] <= Cooldown
  /\ pc[Service] = "backoff" => overdue + rest[Service] <= Cooldown + Backoff
  /\ pc[Service] = "pause" => overdue + rest[Service] <= Cooldown
  /\ overdue <= Hint
  /\ owner = Service /\ phase \in {"listen", "accept"} => overdue <= Cooldown
  /\ owner = Service /\ phase = "read" => overdue = 0
  /\ owner = Service /\ phase = "capture" => overdue <= clock
  /\ owner = Service /\ phase \in {"write", "push", "drain"} => overdue <= MaxWindow + Late
  /\ phase = "capture" => inbox.window <= MaxWindow /\ clock <= inbox.window + Late

\* A client that is there reads its answer before any time has passed.
PromptReader ==
  \A c \in Client :
    /\ phase \in {"push", "drain"} /\ peer = c /\ cpc[c] = "read" /\ ~hung[c] /\ outbox # Nil
    => clock = 0

\* A client that has met nothing but the gap between two clients has waited for no
\* longer than the gap, and a server is about to end it.
GapInv ==
  /\ \A s \in Server : pc[s] \in {"top", "pause"} => rest[s] <= Cooldown
  /\ \A c \in Client : cpc[c] = "open" /\ met[c] = {} =>
       /\ Rotating /\ peer = Nil
       /\ cclock[c] <= Cooldown
       /\ \A s \in Server : pc[s] \in {"top", "pause"} => rest[s] + cclock[c] <= Cooldown

-----------------------------------------------------------------------------
(* The constants and the types *)

LEMMA Durations ==
  /\ MaxWindow \in Nat /\ Late \in Nat /\ Slack \in Nat /\ Margin \in Nat
  /\ IoDeadline \in Nat /\ IoDeadline > 0
  /\ Cooldown \in Nat /\ Cooldown > 0 /\ Backoff \in Nat /\ Backoff > 0
  /\ Hint \in Nat /\ Hint = MaxWindow + Slack
  /\ Late <= Slack /\ Cooldown + Backoff <= MaxWindow + Slack
BY ConstantsAssumption, HintAssumption DEF Hint

LEMMA Actors ==
  /\ Service \in Server /\ Nil \notin Client /\ Nil \notin Server /\ Nil \notin Request
  /\ \A c \in Client : \A r \in Asks[c] : r \in Request
  /\ \A r \in Request : r.window \in Nat
BY ConstantsAssumption DEF Request

LEMMA MeetTyped ==
  ASSUME TypeOK, Meet
  PROVE  met' \in [Client -> SUBSET {"absent", "busy"}]
BY DEF TypeOK, Meet

\* The pause there is to sleep, and its two ways to be set.
LEMMA Rests ==
  /\ 0 \in 0..(Cooldown + Backoff) /\ 1 \in 0..(Cooldown + Backoff)
  /\ Cooldown \in 0..(Cooldown + Backoff) /\ Backoff \in 0..(Cooldown + Backoff)
  /\ \A n \in 0..(Cooldown + Backoff) : Left(n) \in 0..(Cooldown + Backoff)
BY Durations DEF Left

-----------------------------------------------------------------------------
(* Types *)

LEMMA CloseTyped ==
  ASSUME TypeOK, Close
  PROVE  /\ owner' \in Server \cup {Nil} /\ peer' \in Client \cup {Nil}
         /\ phase' \in {"none", "listen", "accept", "read", "capture", "write", "push", "drain"}
         /\ inbox' \in Request \cup {Nil} /\ outbox' \in Request \cup {Nil}
         /\ clock' \in Nat
BY DEF Close

LEMMA ServedTyped ==
  ASSUME TypeOK, NEW s \in Server, Served(s) PROVE TypeOK'
<1>1. Close
  BY DEF Served
<1>2. QED
  BY <1>1, CloseTyped, Rests DEF TypeOK, Served, scmVars, clientVars

LEMMA OverTyped ==
  ASSUME TypeOK, NEW s \in Server, NEW st \in {"stopped", "died"}, Over(s, st) PROVE TypeOK'
<1>1. /\ owner' \in Server \cup {Nil} /\ peer' \in Client \cup {Nil}
      /\ phase' \in {"none", "listen", "accept", "read", "capture", "write", "push", "drain"}
      /\ inbox' \in Request \cup {Nil} /\ outbox' \in Request \cup {Nil}
      /\ clock' \in Nat
  BY CloseTyped DEF TypeOK, Over, pipeVars
<1>2. pc' \in [Server -> {"down", "top", "pause", "backoff", "serve"}]
      /\ rest' \in [Server -> 0..(Cooldown + Backoff)]
  BY Rests DEF TypeOK, Over
<1>3. scm' \in {"stopped", "running", "pending", "died"} /\ raising' \in BOOLEAN
      /\ stop' \in BOOLEAN /\ overdue' \in Nat
  <2>1. CASE s = Service
    <3>1. scm' = st /\ raising' = FALSE /\ stop' = FALSE /\ overdue' = 0
      BY <2>1 DEF Over
    <3>2. QED
      BY <3>1
  <2>2. CASE s # Service
    BY <2>2 DEF TypeOK, Over, scmVars
  <2>3. QED
    BY <2>1, <2>2
<1>4. met' \in [Client -> SUBSET {"absent", "busy"}]
  BY MeetTyped DEF Over
<1>5. QED
  BY <1>1, <1>2, <1>3, <1>4 DEF TypeOK, Over, clientVars

LEMMA ReturnTyped ==
  ASSUME TypeOK, NEW c \in Client, Return(c)
  PROVE  /\ cpc' \in [Client -> {"idle", "open", "send", "read"}]
         /\ ask' \in [Client -> Request \cup {Nil}]
         /\ cclock' \in [Client -> Nat] /\ hung' \in [Client -> BOOLEAN]
         /\ UNCHANGED <<serverVars, scmVars>>
BY DEF TypeOK, Return

LEMMA ServerTyped ==
  ASSUME TypeOK, NEW s \in Server, ServerStep(s) \/ Start(s) \/ Crash(s) PROVE TypeOK'
<1>1. CASE Exit(s) \/ Stopped(s) \/ Crash(s)
  BY <1>1, OverTyped DEF Exit, Stopped, Crash
<1>2. CASE ReadFails(s) \/ Drained(s)
  BY <1>2, ServedTyped DEF ReadFails, Drained
<1>a. CASE CreateFails(s) \/ AcceptFails(s)
  <2>1. CycleFails(s) /\ Meet
    BY <1>a DEF CreateFails, AcceptFails, CycleFails
  <2>2. /\ owner' \in Server \cup {Nil} /\ peer' \in Client \cup {Nil}
        /\ phase' \in {"none", "listen", "accept", "read", "capture", "write", "push", "drain"}
        /\ inbox' \in Request \cup {Nil} /\ outbox' \in Request \cup {Nil}
        /\ clock' \in Nat
    BY <1>a, CloseTyped DEF TypeOK, CreateFails, AcceptFails, pipeVars
  <2>3. QED
    BY <2>1, <2>2, MeetTyped, Rests DEF TypeOK, CycleFails, scmVars, clientVars
<1>3. CASE Pause(s) \/ Retry(s)
  BY <1>3 DEF TypeOK, Pause, Retry, scmVars, pipeVars, clientVars
<1>4. CASE Start(s)
  BY <1>4 DEF TypeOK, Start, pipeVars, clientVars
<1>5. CASE Create(s)
  <2>1. Meet
    BY <1>5 DEF Create
  <2>2. /\ pc' \in [Server -> {"down", "top", "pause", "backoff", "serve"}]
        /\ rest' \in [Server -> 0..(Cooldown + Backoff)]
        /\ owner' \in Server \cup {Nil}
        /\ phase' \in {"none", "listen", "accept", "read", "capture", "write", "push", "drain"}
    BY <1>5, Rests DEF TypeOK, Create
  <2>3. QED
    BY <1>5, <2>1, <2>2, MeetTyped DEF TypeOK, Create, scmVars, clientVars
<1>6. CASE Accept(s)
  BY <1>6 DEF TypeOK, Accept, serverVars, scmVars, clientVars
<1>7. CASE Read(s)
  BY <1>7 DEF TypeOK, Read, serverVars, scmVars, clientVars
<1>8. CASE Captured(s)
  BY <1>8 DEF TypeOK, Captured, serverVars, scmVars, clientVars
<1>9. CASE Write(s) \/ Pushed(s)
  <2>1. CASE Served(s)
    BY <2>1, ServedTyped
  <2>2. CASE ~Served(s)
    BY <1>9, <2>2 DEF TypeOK, Write, Pushed, serverVars, scmVars, clientVars
  <2>3. QED
    BY <2>1, <2>2
<1>10. QED
  BY <1>1, <1>2, <1>a, <1>3, <1>4, <1>5, <1>6, <1>7, <1>8, <1>9 DEF ServerStep

LEMMA ClientTyped ==
  ASSUME TypeOK, NEW c \in Client, ClientStep(c) \/ Ask(c) \/ Hang(c) \/ Quit(c) PROVE TypeOK'
<1>1. CASE Unavailable(c) \/ Busy(c) \/ Broken(c) \/ TimesOut(c) \/ Quit(c)
  BY <1>1, ReturnTyped, MeetTyped
     DEF TypeOK, Unavailable, Busy, Broken, TimesOut, Quit, serverVars, scmVars, pipeVars
<1>2. CASE Receive(c)
  BY <1>2, ReturnTyped, MeetTyped DEF TypeOK, Receive, serverVars, scmVars
<1>3. CASE Ask(c)
  BY <1>3, MeetTyped, Actors DEF TypeOK, Ask, serverVars, scmVars, pipeVars
<1>4. CASE Open(c)
  BY <1>4, MeetTyped DEF TypeOK, Open, serverVars, scmVars
<1>5. CASE Send(c)
  BY <1>5 DEF TypeOK, Send, serverVars, scmVars
<1>6. CASE Hang(c)
  BY <1>6 DEF TypeOK, Hang, serverVars, scmVars, pipeVars
<1>7. QED
  BY <1>1, <1>2, <1>3, <1>4, <1>5, <1>6 DEF ClientStep

LEMMA TickTyped == ASSUME TypeOK, Tick PROVE TypeOK'
<1>1. rest' \in [Server -> 0..(Cooldown + Backoff)]
  BY Rests DEF TypeOK, Tick
<1>2. overdue' \in Nat /\ clock' \in Nat
  BY DEF TypeOK, Tick
<1>3. cclock' \in [Client -> Nat]
  BY DEF TypeOK, Tick
<1>4. QED
  BY <1>1, <1>2, <1>3 DEF TypeOK, Tick

LEMMA TypeStep == ASSUME TypeOK, [Next]_vars PROVE TypeOK'
<1>1. CASE StopControl \/ RaiseStop
  BY <1>1 DEF TypeOK, StopControl, RaiseStop, serverVars, pipeVars, clientVars
<1>2. CASE UNCHANGED vars
  BY <1>2 DEF TypeOK, vars, serverVars, scmVars, pipeVars, clientVars
<1>3. QED
  BY <1>1, <1>2, ServerTyped, ClientTyped, TickTyped DEF Next

LEMMA InitTyped == ASSUME Init PROVE TypeOK
<1>1. 0 \in 0..(Cooldown + Backoff)
  BY Rests
<1>2. /\ pc \in [Server -> {"down", "top", "pause", "backoff", "serve"}]
      /\ rest \in [Server -> 0..(Cooldown + Backoff)]
  BY <1>1 DEF Init
<1>3. /\ cpc \in [Client -> {"idle", "open", "send", "read"}]
      /\ ask \in [Client -> Request \cup {Nil}]
      /\ cclock \in [Client -> Nat] /\ hung \in [Client -> BOOLEAN]
      /\ met \in [Client -> SUBSET {"absent", "busy"}]
  BY DEF Init
<1>4. QED
  BY <1>2, <1>3 DEF Init, TypeOK

\* Every state is well typed, the pauses within their bounds.
THEOREM PipeTypes == Spec => []TypeOK
BY InitTyped, TypeStep, PTL DEF Spec

-----------------------------------------------------------------------------
(* What is in the pipe *)

LEMMA ClosePipe ==
  ASSUME PipeInv, NEW s \in Server, owner = s, Close, pc'[s] # "serve",
         \A t \in Server \ {s} : pc'[t] = pc[t], UNCHANGED clientVars
  PROVE  PipeInv'
BY Actors DEF PipeInv, Close, clientVars

LEMMA ServedPipe ==
  ASSUME TypeOK, PipeInv, NEW s \in Server, owner = s, Served(s) PROVE PipeInv'
BY ClosePipe DEF TypeOK, Served

LEMMA OverPipe ==
  ASSUME TypeOK, PipeInv, NEW s \in Server, NEW st, Over(s, st) PROVE PipeInv'
<1>1. CASE owner = s
  BY <1>1, ClosePipe DEF TypeOK, Over
<1>2. CASE owner # s
  BY <1>2 DEF TypeOK, PipeInv, Over, pipeVars, clientVars
<1>3. QED
  BY <1>1, <1>2

LEMMA ServerPipe ==
  ASSUME TypeOK, PipeInv, NEW s \in Server, ServerStep(s) \/ Start(s) \/ Crash(s)
  PROVE  PipeInv'
<1>1. CASE Exit(s) \/ Stopped(s) \/ Crash(s)
  BY <1>1, OverPipe DEF Exit, Stopped, Crash
<1>2. CASE ReadFails(s) \/ Drained(s)
  BY <1>2, ServedPipe DEF ReadFails, Drained
<1>a. CASE AcceptFails(s)
  BY <1>a, ClosePipe DEF TypeOK, AcceptFails, CycleFails
<1>b. CASE CreateFails(s)
  BY <1>b DEF TypeOK, PipeInv, CreateFails, CycleFails, pipeVars, clientVars
<1>3. CASE Pause(s) \/ Retry(s) \/ Start(s)
  BY <1>3 DEF TypeOK, PipeInv, Pause, Retry, Start, pipeVars, clientVars
<1>4. CASE Create(s)
  BY <1>4, Actors DEF TypeOK, PipeInv, Create, clientVars
<1>5. CASE Accept(s) \/ Read(s) \/ Captured(s)
  BY <1>5 DEF TypeOK, PipeInv, Accept, Read, Captured, serverVars, clientVars
<1>6. CASE Write(s) \/ Pushed(s)
  <2>1. CASE Served(s)
    BY <1>6, <2>1, ServedPipe DEF Write, Pushed
  <2>2. CASE ~Served(s)
    BY <1>6, <2>2 DEF TypeOK, PipeInv, Write, Pushed, serverVars, clientVars
  <2>3. QED
    BY <2>1, <2>2
<1>7. QED
  BY <1>1, <1>2, <1>a, <1>b, <1>3, <1>4, <1>5, <1>6 DEF ServerStep

LEMMA ClientPipe ==
  ASSUME TypeOK, PipeInv, NEW c \in Client, ClientStep(c) \/ Ask(c) \/ Hang(c) \/ Quit(c)
  PROVE  PipeInv'
<1>1. CASE Unavailable(c) \/ Busy(c) \/ Broken(c) \/ TimesOut(c) \/ Quit(c)
  BY <1>1 DEF TypeOK, PipeInv, Unavailable, Busy, Broken, TimesOut, Quit, Return,
              serverVars, pipeVars
<1>2. CASE Receive(c)
  BY <1>2 DEF TypeOK, PipeInv, Receive, Return, serverVars
<1>3. CASE Ask(c)
  BY <1>3 DEF TypeOK, PipeInv, Ask, serverVars, pipeVars
<1>4. CASE Open(c)
  BY <1>4, Actors DEF TypeOK, PipeInv, Open, serverVars
<1>5. CASE Send(c)
  <2>1. inbox = Nil /\ outbox = Nil /\ phase \notin {"none", "listen", "push", "drain"}
    BY <1>5, Actors DEF PipeInv, Send
  <2>2. UNCHANGED <<pc, owner, phase, peer, outbox, ask>> /\ peer = c /\ inbox' = ask[c]
    BY <1>5 DEF Send, serverVars
  <2>3. \A d \in Client : peer = d => d = c
    BY <2>2
  <2>4. cpc'[c] = "read"
    BY <1>5 DEF TypeOK, Send
  <2>5. phase \notin {"capture", "write"}
    BY <2>1 DEF PipeInv
  <2>6. QED
    BY <2>1, <2>2, <2>3, <2>4, <2>5 DEF PipeInv
<1>6. CASE Hang(c)
  BY <1>6 DEF TypeOK, PipeInv, Hang, serverVars, pipeVars
<1>7. QED
  BY <1>1, <1>2, <1>3, <1>4, <1>5, <1>6 DEF ClientStep

LEMMA PipeStep == ASSUME TypeOK, PipeInv, [Next]_vars PROVE PipeInv'
<1>1. CASE StopControl \/ RaiseStop \/ Tick
  BY <1>1 DEF PipeInv, StopControl, RaiseStop, Tick, serverVars, pipeVars, clientVars
<1>2. CASE UNCHANGED vars
  BY <1>2 DEF PipeInv, vars, serverVars, pipeVars, clientVars
<1>3. QED
  BY <1>1, <1>2, ServerPipe, ClientPipe DEF Next

-----------------------------------------------------------------------------
(* A stop *)

\* A step that leaves the service, its pipe and the stop alone.
Apart ==
  /\ UNCHANGED <<stop, overdue, raising, scm, owner, phase, inbox, clock>>
  /\ pc'[Service] = pc[Service] /\ rest'[Service] = rest[Service]

LEMMA ApartStop == ASSUME StopInv, Apart PROVE StopInv'
BY DEF StopInv, Apart

\* What the wait hint says of every pause and of the longest capture.
LEMMA WithinHint ==
  /\ Cooldown <= Hint /\ Cooldown + Backoff <= Hint /\ MaxWindow + Late <= Hint
BY Durations

\* Wherever the service stands at the pipe, it has been stopping for less than the hint.
LEMMA AtThePipe ==
  ASSUME TypeOK, PipeInv, StopInv, owner = Service
  PROVE  /\ phase \in {"listen", "accept"} => overdue <= Cooldown
         /\ phase \in {"read", "write", "push", "drain"} => overdue <= MaxWindow + Late
         /\ phase = "capture" => overdue <= MaxWindow + Late
BY Durations, Actors DEF TypeOK, StopInv, PipeInv

LEMMA ServedStop ==
  ASSUME TypeOK, PipeInv, StopInv, NEW s \in Server, owner = s, Served(s)
  PROVE  StopInv'
<1>1. pc[s] = "serve"
  BY DEF PipeInv
<1>2. owner' # Service /\ phase' = "none"
  BY Actors DEF Served, Close
<1>3. UNCHANGED <<stop, overdue, raising, scm>>
  BY DEF Served, scmVars
<1>4. CASE s = Service
  BY <1>1, <1>2, <1>3, <1>4, Durations DEF TypeOK, StopInv, Served
<1>5. CASE s # Service
  BY <1>2, <1>3, <1>5, Actors DEF TypeOK, StopInv, Served
<1>6. QED
  BY <1>4, <1>5

LEMMA OverStop ==
  ASSUME TypeOK, PipeInv, StopInv, NEW s \in Server, NEW st \in {"stopped", "died"},
         Over(s, st)
  PROVE  StopInv'
<1>1. CASE s = Service
  <2>1. pc'[Service] = "down" /\ overdue' = 0 /\ ~stop' /\ ~raising' /\ scm' # "running"
    BY <1>1, Actors DEF TypeOK, Over
  <2>2. owner' # Service
    BY <1>1, Actors DEF TypeOK, PipeInv, Over, Close, pipeVars
  <2>3. phase' = "capture" => phase = "capture" /\ UNCHANGED <<inbox, clock>>
    BY DEF Over, Close, pipeVars
  <2>4. QED
    BY <2>1, <2>2, <2>3, Durations DEF StopInv
<1>2. CASE s # Service /\ owner # s
  BY <1>2, ApartStop, Actors DEF TypeOK, Over, Apart, pipeVars, scmVars
<1>3. CASE s # Service /\ owner = s
  <2>1. UNCHANGED <<stop, overdue, raising, scm>>
    BY <1>3 DEF Over, scmVars
  <2>2. pc'[Service] = pc[Service] /\ rest'[Service] = rest[Service]
    BY <1>3, Actors DEF TypeOK, Over
  <2>3. owner' # Service /\ phase' = "none"
    BY <1>3, Actors DEF Over, Close
  <2>4. QED
    BY <2>1, <2>2, <2>3 DEF StopInv
<1>4. QED
  BY <1>1, <1>2, <1>3

LEMMA ServerStop ==
  ASSUME TypeOK, PipeInv, StopInv, NEW s \in Server, ServerStep(s) \/ Start(s) \/ Crash(s)
  PROVE  StopInv'
<1>1. CASE Exit(s) \/ Stopped(s) \/ Crash(s)
  BY <1>1, OverStop DEF Exit, Stopped, Crash
<1>2. CASE ReadFails(s) \/ Drained(s)
  BY <1>2, ServedStop DEF ReadFails, Drained
<1>3. CASE Pause(s) \/ Retry(s) \/ Start(s)
  <2>1. UNCHANGED <<stop, overdue, raising, owner, phase, inbox, clock>>
    BY <1>3 DEF Pause, Retry, Start, scmVars, pipeVars
  <2>2. CASE s # Service
    BY <1>3, <2>2, ApartStop, Actors
       DEF TypeOK, Pause, Retry, Start, Apart, scmVars, pipeVars
  <2>3. CASE s = Service
    <3>1. rest' = rest /\ (pc'[s] = "top" \/ pc'[s] = "pause")
      BY <1>3, <2>3, Actors DEF TypeOK, Pause, Retry, Start
    <3>2. rest[s] <= Cooldown /\ rest[s] \in Nat
      BY <1>3, <2>3, Durations DEF TypeOK, StopInv, Pause, Retry, Start
    <3>3. pc'[s] = "pause" => overdue = 0
      BY <1>3, <2>3, <3>1, Actors DEF TypeOK, StopInv, Pause, Retry, Start, StopSeen
    <3>4. QED
      BY <2>1, <2>3, <3>1, <3>2, <3>3, Durations DEF TypeOK, StopInv
  <2>4. QED
    BY <2>2, <2>3
<1>4. CASE Create(s)
  <2>1. UNCHANGED <<stop, overdue, raising, scm, inbox, clock>> /\ phase' = "listen"
    BY <1>4 DEF Create, scmVars
  <2>2. CASE s # Service
    BY <1>4, <2>1, <2>2, Actors DEF TypeOK, StopInv, Create
  <2>3. CASE s = Service
    <3>1. overdue <= Cooldown
      BY <1>4, <2>3 DEF TypeOK, StopInv, Create
    <3>2. QED
      BY <1>4, <2>1, <2>3, <3>1, WithinHint DEF TypeOK, StopInv, Create
  <2>4. QED
    BY <2>2, <2>3
<1>a. CASE CreateFails(s) \/ AcceptFails(s)
  <2>1. CycleFails(s) /\ UNCHANGED <<stop, overdue, raising, scm>>
    BY <1>a DEF CreateFails, AcceptFails, CycleFails, scmVars
  <2>2. phase' = "none" \/ UNCHANGED <<owner, phase, inbox, clock>>
    BY <1>a DEF CreateFails, AcceptFails, Close, pipeVars
  <2>3. phase' = "none" => owner' # Service
    BY <1>a, Actors DEF PipeInv, CreateFails, AcceptFails, Close, pipeVars
  <2>4. CASE s # Service
    BY <2>1, <2>2, <2>3, <2>4, Actors DEF TypeOK, StopInv, CycleFails
  <2>5. CASE s = Service
    <3>1. overdue <= Cooldown
      BY <1>a, <2>5 DEF TypeOK, StopInv, CreateFails, AcceptFails
    <3>2. pc'[Service] = "backoff" /\ rest'[Service] = Backoff /\ owner' # Service
      BY <1>a, <2>1, <2>5, Actors
         DEF TypeOK, PipeInv, CreateFails, AcceptFails, CycleFails, Close, pipeVars
    <3>3. QED
      BY <2>1, <2>2, <3>1, <3>2, Durations DEF TypeOK, StopInv
  <2>6. QED
    BY <2>4, <2>5
<1>5. CASE Accept(s) \/ Read(s) \/ Captured(s)
  <2>1. UNCHANGED <<stop, overdue, raising, scm, owner, inbox, pc, rest>> /\ owner = s
    BY <1>5 DEF Accept, Read, Captured, serverVars, scmVars
  <2>2. CASE Accept(s)
    BY <2>1, <2>2, Actors DEF TypeOK, StopInv, Accept, StopSeen
  <2>3. CASE Read(s)
    BY <2>1, <2>3, Durations, Actors DEF TypeOK, StopInv, Read, Valid
  <2>4. CASE Captured(s)
    <3>1. inbox \in Request /\ inbox.window \in Nat
      BY <2>4, Actors DEF TypeOK, PipeInv, Captured
    <3>2. QED
      BY <2>1, <2>4, <3>1, Durations DEF TypeOK, StopInv, Captured
  <2>5. QED
    BY <1>5, <2>2, <2>3, <2>4
<1>6. CASE Write(s) \/ Pushed(s)
  <2>1. CASE Served(s)
    BY <1>6, <2>1, ServedStop DEF Write, Pushed
  <2>2. CASE ~Served(s)
    BY <1>6, <2>2 DEF TypeOK, StopInv, Write, Pushed, serverVars, scmVars
  <2>3. QED
    BY <2>1, <2>2
<1>7. QED
  BY <1>1, <1>2, <1>3, <1>4, <1>a, <1>5, <1>6 DEF ServerStep

LEMMA ClientStop ==
  ASSUME TypeOK, PipeInv, StopInv, NEW c \in Client,
         ClientStep(c) \/ Ask(c) \/ Hang(c) \/ Quit(c)
  PROVE  StopInv'
<1>1. UNCHANGED <<stop, overdue, raising, scm, pc, rest, owner>>
  BY DEF ClientStep, Ask, Hang, Quit, Open, Unavailable, Busy, Send, Receive, Broken,
         TimesOut, Return, serverVars, scmVars, pipeVars
<1>2. CASE Open(c)
  BY <1>1, <1>2 DEF TypeOK, StopInv, Open
<1>3. CASE Send(c)
  <2>1. phase # "capture" /\ UNCHANGED <<phase, clock>>
    BY <1>3, Actors DEF PipeInv, Send
  <2>2. QED
    BY <1>1, <2>1 DEF StopInv
<1>4. CASE ~Open(c) /\ ~Send(c)
  <2>1. UNCHANGED <<phase, inbox, clock>>
    BY <1>4 DEF ClientStep, Ask, Hang, Quit, Unavailable, Busy, Receive, Broken,
                TimesOut, pipeVars
  <2>2. QED
    BY <1>1, <2>1, ApartStop DEF Apart
<1>5. QED
  BY <1>2, <1>3, <1>4

LEMMA TickStop == ASSUME TypeOK, PipeInv, StopInv, Tick PROVE StopInv'
<1>1. /\ UNCHANGED <<pc, scm, raising, stop, owner, phase, inbox>> /\ ~raising
      /\ overdue' = IF stop /\ overdue < LastTick THEN overdue + 1 ELSE overdue
      /\ clock' = IF phase \in {"read", "capture", "push", "drain"} THEN clock + 1 ELSE clock
      /\ rest'[Service] = Left(rest[Service])
  BY Actors DEF TypeOK, Tick
<1>2. Waiting(Service) /\ \A s \in Server : Waiting(s)
  BY Actors DEF Tick
<1>3. phase = "capture" => clock < inbox.window + Late /\ inbox.window \in Nat
  <2>1. SUFFICES ASSUME phase = "capture"
                 PROVE  clock < inbox.window + Late /\ inbox.window \in Nat
    OBVIOUS
  <2>2. PICK s \in Server : owner = s /\ pc[s] = "serve"
    BY <2>1 DEF TypeOK, PipeInv
  <2>3. QED
    BY <1>2, <2>1, <2>2, Actors DEF TypeOK, PipeInv, Waiting
<1>4. pc[Service] # "top"
  BY <1>2 DEF Waiting
<1>5. pc[Service] \in {"pause", "backoff"} => rest[Service] > 0
  BY <1>2 DEF Waiting
<1>6. pc[Service] = "down" => ~stop
  BY DEF StopInv
<1>7. owner = Service => pc[Service] = "serve"
  BY Actors DEF PipeInv
<1>8. pc[Service] = "serve" => owner = Service
  BY Actors DEF PipeInv
<1>9. owner = Service => ~stop \/ phase = "capture"
  BY <1>2, <1>7 DEF Waiting, StopSeen, TypeOK, PipeInv
<1>a. phase' = "capture" => inbox'.window <= MaxWindow /\ clock' <= inbox'.window + Late
  BY <1>1, <1>3, Durations DEF TypeOK, StopInv
<1>b. rest[Service] \in Nat /\ rest'[Service] \in Nat /\ rest'[Service] <= rest[Service]
  BY <1>1, Durations, Actors DEF TypeOK, Left
<1>10. CASE ~stop
  <2>1. overdue' = 0 /\ overdue = 0 /\ 0 <= clock'
    BY <1>1, <1>10 DEF TypeOK, StopInv
  <2>2. QED
    BY <1>1, <1>10, <1>a, <1>b, <2>1, Durations DEF TypeOK, StopInv
<1>11. CASE stop /\ owner = Service
  <2>1. phase = "capture" /\ clock' = clock + 1 /\ clock' <= MaxWindow + Late
    BY <1>1, <1>9, <1>a, <1>11, <1>3, Durations DEF TypeOK, StopInv
  <2>2. overdue' <= clock'
    BY <1>1, <1>11, <2>1 DEF TypeOK, StopInv
  <2>3. overdue' <= Hint
    BY <1>1, <2>1, <2>2, Durations DEF TypeOK
  <2>4. QED
    BY <1>1, <1>7, <1>11, <1>a, <2>1, <2>2, <2>3 DEF StopInv
<1>12. CASE stop /\ pc[Service] \in {"pause", "backoff"}
  <2>1. rest'[Service] = rest[Service] - 1 /\ overdue' <= overdue + 1 /\ owner # Service
    BY <1>1, <1>5, <1>7, <1>b, <1>12 DEF TypeOK, Left
  <2>2. overdue' + rest'[Service] <= overdue + rest[Service]
    BY <1>b, <2>1, <1>1 DEF TypeOK
  <2>3. overdue' <= Cooldown + Backoff
    BY <1>b, <1>1, <1>12, <2>2, Durations DEF TypeOK, StopInv
  <2>4. QED
    BY <1>1, <1>a, <1>b, <1>12, <2>1, <2>2, <2>3, Durations DEF TypeOK, StopInv
<1>13. QED
  BY <1>4, <1>6, <1>8, <1>10, <1>11, <1>12, Actors DEF TypeOK

LEMMA StopStep == ASSUME TypeOK, PipeInv, StopInv, [Next]_vars PROVE StopInv'
<1>1. CASE StopControl
  BY <1>1 DEF StopInv, StopControl, serverVars, pipeVars
<1>2. CASE RaiseStop
  BY <1>2 DEF StopInv, RaiseStop, serverVars, pipeVars
<1>3. CASE UNCHANGED vars
  BY <1>3 DEF StopInv, vars, serverVars, scmVars, pipeVars
<1>4. QED
  BY <1>1, <1>2, <1>3, ServerStop, ClientStop, TickStop DEF Next

LEMMA InitHolds == ASSUME Init PROVE TypeOK /\ PipeInv /\ StopInv /\ PromptReader
<1>1. \A s \in Server : pc[s] = "down" /\ s # Nil
  BY Actors DEF Init
<1>2. \A c \in Client : cpc[c] = "idle"
  BY DEF Init
<1>3. PipeInv
  BY <1>1, <1>2 DEF Init, PipeInv
<1>4. StopInv
  BY <1>1, Actors, Durations DEF Init, StopInv
<1>5. PromptReader
  BY DEF Init, PromptReader
<1>6. QED
  BY <1>3, <1>4, <1>5, InitTyped

\* What the pipe holds belongs to the client at its other end.
THEOREM AnswersAreOwn == Spec => []OwnAnswer
<1>1. TypeOK /\ PipeInv => OwnAnswer
  BY DEF PipeInv, OwnAnswer
<1>2. QED
  BY <1>1, InitHolds, TypeStep, PipeStep, PTL DEF Spec

\* A stop, whenever it comes, is over within the hint given to the service manager.
THEOREM StopsInTime == Spec => []StopsWithinHint
<1>1. StopInv => StopsWithinHint
  BY DEF StopInv, StopsWithinHint
<1>2. QED
  BY <1>1, InitHolds, TypeStep, PipeStep, StopStep, PTL DEF Spec

-----------------------------------------------------------------------------
(* The answer *)

LEMMA ServerPrompt ==
  ASSUME TypeOK, PipeInv, PromptReader, NEW s \in Server, ServerStep(s) \/ Start(s) \/ Crash(s)
  PROVE  PromptReader'
<1>1. UNCHANGED <<cpc, hung>>
  BY DEF ServerStep, Start, Crash, Exit, Pause, Create, CreateFails, Retry, Stopped, Accept,
         AcceptFails, Read, ReadFails, Captured, Write, Pushed, Drained, Over, Served,
         CycleFails, clientVars
<1>2. phase' \in {"push", "drain"} => clock' = 0 \/ UNCHANGED <<phase, peer, outbox, clock>>
  BY DEF ServerStep, Start, Crash, Exit, Pause, Create, CreateFails, Retry, Stopped, Accept,
         AcceptFails, Read, ReadFails, Captured, Write, Pushed, Drained, Over, Served, Close,
         CycleFails, pipeVars
<1>3. QED
  BY <1>1, <1>2 DEF PromptReader

LEMMA ClientPrompt ==
  ASSUME TypeOK, PipeInv, PromptReader, NEW c \in Client,
         ClientStep(c) \/ Ask(c) \/ Hang(c) \/ Quit(c)
  PROVE  PromptReader'
<1>1. CASE Open(c)
  BY <1>1 DEF PromptReader, Open
<1>2. CASE Send(c)
  <2>1. outbox' = Nil
    BY <1>2, Actors DEF PipeInv, Send
  <2>2. QED
    BY <2>1 DEF PromptReader
<1>3. CASE Receive(c)
  BY <1>3 DEF PromptReader, Receive
<1>4. CASE Ask(c)
  BY <1>4 DEF TypeOK, PromptReader, Ask, pipeVars
<1>5. CASE Hang(c)
  BY <1>5 DEF TypeOK, PromptReader, Hang, pipeVars
<1>6. CASE Unavailable(c) \/ Busy(c) \/ Broken(c) \/ TimesOut(c) \/ Quit(c)
  BY <1>6 DEF TypeOK, PromptReader, Unavailable, Busy, Broken, TimesOut, Quit, Return, pipeVars
<1>7. QED
  BY <1>1, <1>2, <1>3, <1>4, <1>5, <1>6 DEF ClientStep

LEMMA PromptStep ==
  ASSUME TypeOK, PipeInv, PromptReader, [Next]_vars PROVE PromptReader'
<1>1. CASE StopControl \/ RaiseStop
  BY <1>1 DEF PromptReader, StopControl, RaiseStop, pipeVars, clientVars
<1>2. CASE Tick
  <2>1. UNCHANGED <<phase, peer, cpc, hung, outbox>>
    BY <1>2 DEF Tick
  <2>2. \A c \in Client : ~(peer = c /\ cpc[c] = "read" /\ ~hung[c] /\ outbox # Nil)
    BY <1>2 DEF Tick, CWaiting
  <2>3. QED
    BY <2>1, <2>2 DEF PromptReader
<1>3. CASE UNCHANGED vars
  BY <1>3 DEF PromptReader, vars, pipeVars, clientVars
<1>4. QED
  BY <1>1, <1>2, <1>3, ServerPrompt, ClientPrompt DEF Next

\* Under a client that reads, only a stop or the end of the server takes the answer away.
LEMMA KeepsTheAnswer ==
  ASSUME TypeOK, PipeInv, PromptReader, Next, NEW c \in Client,
         peer = c, cpc[c] = "read", ~hung[c], outbox # Nil, peer' # c, cpc'[c] = "read"
  PROVE  stop \/ pc'[owner] = "down"
<1>1. phase \in {"push", "drain"} /\ clock = 0 /\ ~Gone
  BY DEF PipeInv, PromptReader, Gone
<1>2. ASSUME NEW s \in Server, ServerStep(s) \/ Start(s) \/ Crash(s)
      PROVE  stop \/ pc'[owner] = "down"
  <2>1. CASE Exit(s) \/ Stopped(s) \/ Crash(s)
    <3>1. owner = s /\ pc'[s] = "down"
      BY <2>1 DEF TypeOK, Exit, Stopped, Crash, Over, pipeVars
    <3>2. QED
      BY <3>1
  <2>2. CASE Pushed(s) \/ Drained(s)
    BY <1>1, <2>2, Durations DEF Pushed, Drained, StopSeen
  <2>3. CASE ReadFails(s) \/ Write(s) \/ AcceptFails(s)
    BY <1>1, <2>3 DEF ReadFails, Write, AcceptFails
  <2>4. CASE \/ Pause(s) \/ Retry(s) \/ Start(s) \/ Create(s) \/ CreateFails(s)
             \/ Accept(s) \/ Read(s) \/ Captured(s)
    BY <2>4 DEF Pause, Retry, Start, Create, CreateFails, Accept, Read, Captured, pipeVars
  <2>5. QED
    BY <1>2, <2>1, <2>2, <2>3, <2>4 DEF ServerStep
<1>3. ASSUME NEW d \in Client, ClientStep(d) \/ Ask(d) \/ Hang(d) \/ Quit(d)
      PROVE  FALSE
  BY <1>1, <1>3 DEF ClientStep, Ask, Hang, Quit, Open, Unavailable, Busy, Send, Receive,
                    Broken, TimesOut, pipeVars
<1>4. CASE StopControl \/ RaiseStop \/ Tick
  BY <1>4 DEF StopControl, RaiseStop, Tick, pipeVars
<1>5. QED
  BY <1>2, <1>3, <1>4 DEF Next

\* An answer is not thrown away under the client that is reading it.
THEOREM AnswersAreKept == Spec => AnswerIsKept
<1> DEFINE Kept == \A c \in Client :
                     /\ peer = c /\ cpc[c] = "read" /\ ~hung[c] /\ outbox # Nil
                     /\ peer' # c /\ cpc'[c] = "read"
                     => stop \/ pc'[owner] = "down"
<1>1. TypeOK /\ PipeInv /\ PromptReader /\ [Next]_vars => [Kept]_vars
  BY KeepsTheAnswer DEF vars
<1>2. QED
  BY <1>1, InitHolds, TypeStep, PipeStep, PromptStep, PTL DEF Spec, AnswerIsKept

-----------------------------------------------------------------------------
(* The gap between two clients *)

\* What an attempt that has still met nothing says of the step.
LEMMA MeetSays ==
  ASSUME Meet, NEW c \in Client, cpc'[c] = "open", met'[c] = {}
  PROVE  Rotating' /\ peer' = Nil /\ met[c] = {}
BY DEF Meet

LEMMA RotatingOn ==
  ASSUME Rotating, NEW s \in Server, \A t \in Server \ {s} : pc'[t] = pc[t],
         pc'[s] \in {"top", "pause", "serve"}
  PROVE  Rotating'
BY DEF Rotating

LEMMA RestsStep ==
  ASSUME TypeOK, GapInv, [Next]_vars
  PROVE  \A s \in Server : pc'[s] \in {"top", "pause"} => rest'[s] <= Cooldown
<1> SUFFICES ASSUME NEW t \in Server, pc'[t] \in {"top", "pause"} PROVE rest'[t] <= Cooldown
  OBVIOUS
<1>1. ASSUME NEW s \in Server, ServerStep(s) \/ Start(s) \/ Crash(s)
      PROVE  rest'[t] <= Cooldown
  <2>1. CASE Exit(s) \/ Stopped(s) \/ Crash(s)
    BY <2>1 DEF TypeOK, GapInv, Exit, Stopped, Crash, Over
  <2>2. CASE Served(s)
    BY <2>2, Durations DEF TypeOK, GapInv, Served
  <2>3. CASE Pause(s) \/ Retry(s) \/ Start(s)
    BY <2>3, Durations DEF TypeOK, GapInv, Pause, Retry, Start
  <2>4. CASE Create(s) \/ CycleFails(s)
    BY <2>4 DEF TypeOK, GapInv, Create, CycleFails
  <2>5. CASE UNCHANGED serverVars
    BY <2>5 DEF GapInv, serverVars
  <2>6. QED
    BY <1>1, <2>1, <2>2, <2>3, <2>4, <2>5
       DEF ServerStep, CreateFails, AcceptFails, ReadFails, Pushed, Drained, Write, Accept,
           Read, Captured
<1>2. CASE Tick
  BY <1>2, Durations DEF TypeOK, GapInv, Tick, Left
<1>3. CASE UNCHANGED serverVars
  BY <1>3 DEF GapInv, serverVars
<1>4. QED
  BY <1>1, <1>2, <1>3
     DEF Next, vars, StopControl, RaiseStop, ClientStep, Ask, Hang, Quit, Open, Unavailable,
         Busy, Send, Receive, Broken, TimesOut, Return

LEMMA ServerGap ==
  ASSUME TypeOK, PipeInv, GapInv, NEW s \in Server, ServerStep(s) \/ Start(s) \/ Crash(s),
         NEW c \in Client, cpc'[c] = "open", met'[c] = {}
  PROVE  /\ Rotating' /\ peer' = Nil
         /\ cclock'[c] <= Cooldown
         /\ \A t \in Server : pc'[t] \in {"top", "pause"} => rest'[t] + cclock'[c] <= Cooldown
<1>1. UNCHANGED <<cpc, cclock>>
  BY DEF ServerStep, Start, Crash, Exit, Pause, Create, CreateFails, Retry, Stopped, Accept,
         AcceptFails, Read, ReadFails, Captured, Write, Pushed, Drained, Over, Served,
         CycleFails, clientVars
<1>2. UNCHANGED met \/ Meet
  BY DEF ServerStep, Start, Crash, Exit, Pause, Create, CreateFails, Retry, Stopped, Accept,
         AcceptFails, Read, ReadFails, Captured, Write, Pushed, Drained, Over, Served,
         CycleFails
<1>3. met[c] = {}
  BY <1>2, MeetSays
<1>4. /\ Rotating /\ peer = Nil /\ cclock[c] <= Cooldown /\ cclock[c] \in Nat
      /\ \A t \in Server : pc[t] \in {"top", "pause"} => rest[t] + cclock[c] <= Cooldown
  BY <1>1, <1>3 DEF TypeOK, GapInv
<1>5. phase \in {"none", "listen"}
  BY <1>4 DEF PipeInv
<1>6. CASE Exit(s) \/ Stopped(s) \/ Crash(s)
  <2>1. Meet /\ pc'[s] = "down" /\ \A t \in Server \ {s} : pc'[t] = pc[t] /\ rest'[t] = rest[t]
    BY <1>6 DEF TypeOK, Exit, Stopped, Crash, Over
  <2>2. Rotating' /\ peer' = Nil
    BY <2>1, MeetSays
  <2>3. QED
    BY <1>1, <1>4, <2>1, <2>2
<1>7. CASE Pause(s) \/ Retry(s) \/ Start(s)
  <2>1. /\ pc'[s] \in {"top", "pause"} /\ rest' = rest /\ peer' = peer
        /\ \A t \in Server \ {s} : pc'[t] = pc[t]
    BY <1>7 DEF TypeOK, Pause, Retry, Start, pipeVars
  <2>2. rest[s] + cclock[c] <= Cooldown
    BY <1>4, <1>7 DEF Pause, Retry, Start
  <2>3. QED
    BY <1>1, <1>4, <2>1, <2>2, RotatingOn
<1>8. CASE Create(s) \/ CreateFails(s) \/ AcceptFails(s)
  <2>1. /\ Meet /\ pc'[s] \in {"serve", "backoff"}
        /\ \A t \in Server \ {s} : pc'[t] = pc[t] /\ rest'[t] = rest[t]
    BY <1>8 DEF TypeOK, Create, CreateFails, AcceptFails, CycleFails
  <2>2. Rotating' /\ peer' = Nil
    BY <2>1, MeetSays
  <2>3. QED
    BY <1>1, <1>4, <2>1, <2>2
<1>9. QED
  BY <1>5, <1>6, <1>7, <1>8
     DEF ServerStep, Accept, Read, ReadFails, Captured, Write, Pushed, Drained

LEMMA ClientGap ==
  ASSUME TypeOK, PipeInv, GapInv, NEW d \in Client,
         ClientStep(d) \/ Ask(d) \/ Hang(d) \/ Quit(d),
         NEW c \in Client, cpc'[c] = "open", met'[c] = {}
  PROVE  /\ Rotating' /\ peer' = Nil
         /\ cclock'[c] <= Cooldown
         /\ \A t \in Server : pc'[t] \in {"top", "pause"} => rest'[t] + cclock'[c] <= Cooldown
<1>1. UNCHANGED <<pc, rest>>
  BY DEF ClientStep, Ask, Hang, Quit, Open, Unavailable, Busy, Send, Receive, Broken,
         TimesOut, Return, serverVars
<1>2. CASE Ask(c) /\ d = c
  <2>1. Meet /\ cclock'[c] = 0
    BY <1>2 DEF Ask
  <2>2. QED
    BY <1>1, <2>1, MeetSays, Durations DEF TypeOK, GapInv
<1>3. CASE cpc[c] = "open" /\ cclock'[c] = cclock[c] /\ Meet
  BY <1>1, <1>3, MeetSays DEF GapInv
<1>4. CASE cpc[c] = "open" /\ cclock'[c] = cclock[c] /\ UNCHANGED <<met, peer>>
  <2>1. Rotating' <=> Rotating
    BY <1>1 DEF Rotating
  <2>2. QED
    BY <1>1, <1>4, <2>1 DEF GapInv
<1>5. d = c => Ask(c)
  BY DEF TypeOK, ClientStep, Hang, Quit, Open, Unavailable, Busy, Send, Receive, Broken,
         TimesOut, Return
<1>6. d # c => cpc[c] = "open" /\ cclock'[c] = cclock[c]
  BY DEF TypeOK, ClientStep, Ask, Hang, Quit, Open, Unavailable, Busy, Send, Receive, Broken,
         TimesOut, Return
<1>7. Meet \/ UNCHANGED <<met, peer>>
  BY DEF ClientStep, Ask, Hang, Quit, Open, Unavailable, Busy, Send, Receive, Broken,
         TimesOut, pipeVars
<1>8. QED
  BY <1>2, <1>3, <1>4, <1>5, <1>6, <1>7

LEMMA TickGap ==
  ASSUME TypeOK, PipeInv, GapInv, Tick, NEW c \in Client, cpc'[c] = "open", met'[c] = {}
  PROVE  /\ Rotating' /\ peer' = Nil
         /\ cclock'[c] <= Cooldown
         /\ \A t \in Server : pc'[t] \in {"top", "pause"} => rest'[t] + cclock'[c] <= Cooldown
<1>1. UNCHANGED <<pc, peer, cpc, met, owner, phase>> /\ cpc[c] = "open"
  BY DEF Tick
<1>2. /\ Rotating /\ peer = Nil /\ cclock[c] \in Nat
      /\ \A t \in Server : pc[t] \in {"top", "pause"} => rest[t] + cclock[c] <= Cooldown
  BY <1>1 DEF TypeOK, GapInv
<1>3. cclock'[c] = cclock[c] \/ cclock'[c] = cclock[c] + 1
  BY <1>1 DEF Tick
<1>4. phase = "none"
  <2>1. phase # "listen"
    <3>1. CWaiting(c)
      BY DEF Tick
    <3>2. QED
      BY <1>1, <3>1 DEF CWaiting
  <2>2. QED
    BY <1>2, <2>1 DEF PipeInv
<1>5. \A t \in Server : pc[t] \in {"top", "pause"} =>
        pc[t] = "pause" /\ rest[t] > 0 /\ rest[t] \in Nat /\ rest'[t] = rest[t] - 1
  <2>1. SUFFICES ASSUME NEW t \in Server, pc[t] \in {"top", "pause"}
                 PROVE  pc[t] = "pause" /\ rest[t] > 0 /\ rest[t] \in Nat
                        /\ rest'[t] = rest[t] - 1
    OBVIOUS
  <2>2. Waiting(t) /\ rest'[t] = Left(rest[t]) /\ rest[t] \in Nat
    BY Durations DEF TypeOK, Tick
  <2>3. QED
    BY <2>1, <2>2 DEF Waiting, Left
<1>6. PICK t \in Server : pc[t] \in {"top", "pause"}
  <2>1. PICK t \in Server : pc[t] \in {"top", "pause", "serve"}
    BY <1>2 DEF Rotating
  <2>2. pc[t] # "serve"
    BY <1>4, Actors DEF PipeInv
  <2>3. QED
    BY <2>1, <2>2
<1>7. cclock'[c] <= Cooldown
  BY <1>2, <1>3, <1>5, <1>6, Durations
<1>8. Rotating'
  BY <1>1, <1>2 DEF Rotating
<1>9. QED
  BY <1>1, <1>2, <1>3, <1>5, <1>7, <1>8, Durations

LEMMA GapStep == ASSUME TypeOK, PipeInv, GapInv, [Next]_vars PROVE GapInv'
<1>1. SUFFICES ASSUME NEW c \in Client, cpc'[c] = "open", met'[c] = {}
               PROVE  /\ Rotating' /\ peer' = Nil
                      /\ cclock'[c] <= Cooldown
                      /\ \A t \in Server : pc'[t] \in {"top", "pause"}
                                            => rest'[t] + cclock'[c] <= Cooldown
  BY RestsStep DEF GapInv
<1>2. CASE UNCHANGED <<pc, rest, peer, cpc, cclock, met>>
  <2>1. Rotating' <=> Rotating
    BY <1>2 DEF Rotating
  <2>2. QED
    BY <1>1, <1>2, <2>1 DEF GapInv
<1>3. CASE StopControl \/ RaiseStop \/ UNCHANGED vars
  BY <1>2, <1>3 DEF StopControl, RaiseStop, vars, serverVars, pipeVars, clientVars
<1>4. QED
  BY <1>1, <1>3, ServerGap, ClientGap, TickGap DEF Next

\* A service that was up, rotating and free all along is never called absent.
THEOREM GapsAreRiddenOut == Spec => GapIsRiddenOut
<1>1. Init => GapInv
  BY Durations DEF Init, GapInv
<1>2. TypeOK /\ PipeInv /\ GapInv /\ [Next]_vars =>
        [\A c \in Client : Unavailable(c) => met[c] # {}]_vars
  <2>1. SUFFICES ASSUME TypeOK, PipeInv, GapInv, NEW c \in Client, Unavailable(c)
                 PROVE  met[c] # {}
    OBVIOUS
  <2>2. cpc[c] = "open" /\ cclock[c] >= Budget[c] /\ cclock[c] \in Nat /\ Budget[c] \in Nat
    BY <2>1, ConstantsAssumption DEF TypeOK, Unavailable, Spent
  <2>3. QED
    BY <2>1, <2>2, BudgetAssumption, Durations DEF GapInv
<1>3. QED
  BY <1>1, <1>2, InitHolds, TypeStep, PipeStep, GapStep, PTL DEF Spec, GapIsRiddenOut
==============================================================================
