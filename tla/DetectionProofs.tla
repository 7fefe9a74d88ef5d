--------------------------- MODULE DetectionProofs ---------------------------
(***************************************************************************)
(* Proofs about Detection, for any sockets, flows and windows, and any     *)
(* floors, grace, probation and quarantine that satisfy its assumptions:   *)
(* what is shown, where the identity lives, that the game a switch ended   *)
(* leaves no echo in the next one, and when an identity is given up.       *)
(***************************************************************************)
EXTENDS Detection, TLAPS

\* Before the first connection there is no identity to lose (new, on_game_closed).
NoGameNoIdentity == socket = Nil => locked = Nil

\* While the stragglers of a game that a switch ended may last, its identity is
\* the one on probation, it is barred, and the quarantine is as old as its end.
EchoesAreBarred ==
  \A f \in Flow : ended[f] < Probation =>
    f \in quarantine /\ probation = f /\ since = ended[f]

\* A socket change under way completes when the probation is over.
SwitchTakesTwoWindows == pending # Nil => \A d \in Gap : since + d >= Probation

\* The inductive invariant.
IInv ==
  /\ TypeOK
  /\ ShowsWhatItHolds
  /\ NoGameNoIdentity
  /\ IdentityIsNotTheHost
  /\ TeardownNeverCounts
  /\ EchoesAreBarred
  /\ SwitchTakesTwoWindows
  /\ NoEchoRelock
  /\ ShownGameIsAlive

-----------------------------------------------------------------------------
(* What the operators do *)

\* The parameters' types.
LEMMA Parameters ==
  /\ Port \in [Flow -> LocalPort]
  /\ Endpoint \in [Flow -> Remote]
  /\ \A f \in Flow : f # Nil /\ Port[f] # Nil /\ Endpoint[f] # Nil
  /\ Window \subseteq [Flow -> Nat]
  /\ Floor \in Nat /\ Floor > 0
  /\ SessionFloor \in Nat /\ SessionFloor > 0
  /\ \A d \in Gap : d \in Nat /\ d > 0
  /\ Grace \in Nat /\ Probation \in Nat /\ Ttl \in Nat /\ Probation <= Ttl
BY ConstantsAssumption

\* The clocks' bounds.
LEMMA Bounds ==
  /\ 0 \in 0..(Ttl + 1) /\ Ttl + 1 \in 0..(Ttl + 1)
  /\ 0 \in 0..(Grace + 1)
  /\ 0 \in 0..Probation /\ Probation \in 0..Probation
BY Parameters

\* The clocks stay within their bounds.
LEMMA Clocks ==
  ASSUME TypeOK, NEW d \in Nat
  PROVE  /\ Since(d) \in 0..(Ttl + 1)
         /\ Quiet(d) \in 0..(Grace + 1)
         /\ Aged(d) \in [Flow -> 0..Probation]
<1> USE Parameters DEF Until
<1>1. Since(d) \in 0..(Ttl + 1)
  BY DEF TypeOK, Since
<1>2. Quiet(d) \in 0..(Grace + 1)
  BY DEF TypeOK, Quiet
<1>3. Aged(d) \in [Flow -> 0..Probation]
  BY DEF TypeOK, Aged
<1>4. QED
  BY <1>1, <1>2, <1>3

\* The quarantine ages with time, past any probation at the latest.
LEMMA Pace ==
  ASSUME TypeOK, NEW d \in Nat
  PROVE  /\ since \in Nat /\ Since(d) \in Nat
         /\ Since(d) <= since + d
         /\ Since(d) <= Ttl => Since(d) = since + d
         /\ Since(d) >= Probation \/ Since(d) = since + d
<1>1. since \in 0..(Ttl + 1)
  BY DEF TypeOK
<1>2. QED
  BY <1>1, Parameters DEF Since, Until

\* So does the age of an ended game, until the probation is over.
LEMMA Ages ==
  ASSUME TypeOK, NEW d \in Nat, NEW f \in Flow
  PROVE  /\ ended[f] \in Nat /\ Aged(d)[f] \in Nat
         /\ Aged(d)[f] >= ended[f]
         /\ Aged(d)[f] >= Probation \/ Aged(d)[f] = ended[f] + d
<1>1. ended[f] \in 0..Probation
  BY DEF TypeOK
<1>2. Aged(d)[f] = Until(ended[f] + d, Probation)
  BY DEF Aged
<1>3. QED
  BY <1>1, <1>2, Parameters DEF Until

\* Filtering and summing give counts; what is filtered counts for nothing.
LEMMA Counts ==
  ASSUME NEW w \in [Flow -> Nat], NEW acc \in [Flow -> Nat], NEW S
  PROVE  /\ Without(w, S) \in [Flow -> Nat]
         /\ \A f \in Flow \cap S : Without(w, S)[f] = 0
         /\ Sum(acc, w) \in [Flow -> Nat]
         /\ \A f \in Flow : acc[f] = 0 /\ w[f] = 0 => Sum(acc, w)[f] = 0
BY DEF Without, Sum

\* The review only lifts bars, never one whose probation still runs.
LEMMA Reviewed ==
  ASSUME TypeOK, NEW raw \in Window, NEW d \in Nat
  PROVE  /\ Clean(raw, d) \in [Flow -> Nat]
         /\ Barred(raw, d) \subseteq quarantine
         /\ \A f \in Barred(raw, d) : f \in Flow /\ Clean(raw, d)[f] = 0
         /\ Suspect(raw, d) \in {probation, Nil}
         /\ Since(d) < Probation
              => Barred(raw, d) = quarantine /\ Suspect(raw, d) = probation
<1>1. Barred(raw, d) \subseteq quarantine
  BY DEF Barred
<1>2. Barred(raw, d) \subseteq Flow
  BY <1>1 DEF TypeOK
<1>3. raw \in [Flow -> Nat]
  BY Parameters
<1>4. Clean(raw, d) \in [Flow -> Nat] /\ \A f \in Barred(raw, d) : Clean(raw, d)[f] = 0
  BY <1>2, <1>3, Counts DEF Clean
<1>5. Since(d) < Probation => ~Lifted(d) /\ ~Proven(raw, d)
  BY Pace, Parameters DEF Lifted, Proven
<1>6. QED
  BY <1>1, <1>2, <1>4, <1>5 DEF Barred, Suspect

\* A lock is kept, or goes to a sparse flow off the game's socket that outweighs it.
LEMMA Lock ==
  ASSUME NEW acc \in [Flow -> Nat], NEW old \in Flow \cup {Nil}, NEW port,
         Accumulate(acc, old, port)
  PROVE  /\ flows' = acc
         /\ locked' \in Flow \cup {Nil}
         /\ old # Nil => locked' # Nil
         /\ \/ locked' = old
            \/ /\ locked' \in Flow
               /\ acc[locked'] > 0
               /\ Port[locked'] # port
               /\ old # Nil => acc[locked'] >= 2 * acc[old]
<1>1. flows' = acc
  BY DEF Accumulate
<1>2. CASE Sparse(acc, port) = {}
  BY <1>1, <1>2 DEF Accumulate, Loudest
<1>3. CASE Sparse(acc, port) # {}
  <2>1. PICK best \in Loudest(Sparse(acc, port), acc) :
          locked' = IF old = Nil \/ Outweighs(acc, best, old) THEN best ELSE old
    BY <1>3 DEF Accumulate
  <2>2. /\ best \in Flow /\ best # Nil
        /\ acc[best] >= SessionFloor /\ Port[best] # port
    BY Parameters DEF Loudest, Sparse
  <2>3. acc[best] \in Nat /\ acc[best] > 0
    BY <2>2, Parameters
  <2>4. old # Nil /\ Outweighs(acc, best, old) => acc[best] >= 2 * acc[old]
    BY <2>3 DEF Outweighs
  <2>5. QED
    BY <1>1, <2>1, <2>2, <2>3, <2>4
<1>4. QED
  BY <1>2, <1>3

\* A host is a flow that clears the floor, on a socket.
LEMMA Hosts ==
  ASSUME NEW w, NEW host \in Loudest(Busy(w), w)
  PROVE  /\ host \in Flow
         /\ Port[host] \in LocalPort /\ Port[host] # Nil
         /\ Mine(w) = {} => Port[host] # socket
BY Parameters DEF Loudest, Busy, Mine

-----------------------------------------------------------------------------
(* The windows that keep the game *)

\* The cases of a step, named once.
LEMMA Steps ==
  ASSUME [Next]_vars
  PROVE  \/ UNCHANGED vars
         \/ CloseGame
         \/ \E d \in Nat, raw \in Window : d \in Gap /\ NewGame(raw, Clean(raw, d), d)
         \/ \E d \in Nat, raw \in Window :
              /\ d \in Gap /\ Review(raw, d)
              /\ \/ Enter(Clean(raw, d)) \/ Stay(Clean(raw, d))
                 \/ Hold(Clean(raw, d), d)
                 \/ Pend(Clean(raw, d), d) \/ FallBack(Clean(raw, d), d) \/ Menu(Clean(raw, d), d)
         \/ \E d \in Nat : Launch(d) \/ Socketless(d) \/ Suspend(d)
<1>1. ASSUME NEW d \in Gap PROVE d \in Nat
  BY Parameters
<1>2. QED
  BY <1>1 DEF Next, OnWindow

\* A window that counts adds to the flows, and keeps the lock or betters it.
LEMMA Counted ==
  ASSUME TypeOK, NEW raw \in Window, NEW d \in Nat,
         Accumulate(Sum(flows, Clean(raw, d)), locked, socket')
  PROVE  /\ flows' \in [Flow -> Nat]
         /\ \A f \in Barred(raw, d) : flows[f] = 0 => flows'[f] = 0
         /\ locked' \in Flow \cup {Nil}
         /\ locked # Nil => locked' # Nil
         /\ \/ locked' = locked
            \/ /\ locked' \in Flow
               /\ flows'[locked'] > 0
               /\ Port[locked'] # socket'
               /\ locked # Nil => flows'[locked'] >= 2 * flows'[locked]
<1>1. Clean(raw, d) \in [Flow -> Nat]
  BY Reviewed
<1>2. flows \in [Flow -> Nat] /\ locked \in Flow \cup {Nil}
  BY DEF TypeOK
<1>3. Sum(flows, Clean(raw, d)) \in [Flow -> Nat]
  BY <1>1, <1>2, Counts
<1>4. ASSUME NEW f \in Barred(raw, d), flows[f] = 0
      PROVE  Sum(flows, Clean(raw, d))[f] = 0
  BY <1>1, <1>2, <1>4, Counts, Reviewed
<1>5. QED
  BY <1>2, <1>3, <1>4, Lock

\* A switch starts from what is left of the window without the old game's flows.
LEMMA Restarted ==
  ASSUME TypeOK, NEW raw \in Window, NEW d \in Nat, NewGame(raw, Clean(raw, d), d)
  PROVE  /\ socket' \in LocalPort /\ socket' # Nil /\ socket' # socket
         /\ pending # Nil
         /\ flows' \in [Flow -> Nat]
         /\ \A f \in quarantine' : f \in Flow /\ flows'[f] = 0
         /\ locked' \in Flow \cup {Nil}
         /\ locked' # Nil => flows'[locked'] > 0 /\ Port[locked'] # socket'
<1> DEFINE w == Clean(raw, d)
<1>1. PICK host \in Loudest(Busy(w), w) : pending = Port[host] /\ socket' = Port[host]
  BY DEF NewGame, Switch
<1>2. Mine(w) = {}
  BY DEF NewGame, Switch, Challenged
<1>3. /\ socket' \in LocalPort /\ socket' # Nil /\ socket' # socket /\ pending # Nil
  BY <1>1, <1>2, Hosts
<1>4. w \in [Flow -> Nat]
  BY Reviewed
<1>5. Teardown \subseteq Flow
  BY DEF Teardown, TypeOK
<1>6. /\ Without(w, Teardown) \in [Flow -> Nat]
      /\ \A f \in Teardown : Without(w, Teardown)[f] = 0
  BY <1>4, <1>5, Counts
<1>7. Accumulate(Without(w, Teardown), Nil, socket') /\ quarantine' = Teardown
  BY DEF NewGame, Restart
<1>8. /\ flows' = Without(w, Teardown)
      /\ locked' \in Flow \cup {Nil}
      /\ locked' # Nil => flows'[locked'] > 0 /\ Port[locked'] # socket'
  BY <1>6, <1>7, Lock
<1>9. QED
  BY <1>3, <1>5, <1>6, <1>7, <1>8

-----------------------------------------------------------------------------
(* The invariant is inductive, part by part *)

LEMMA InitHolds == Init => IInv
<1> SUFFICES ASSUME Init PROVE IInv
  OBVIOUS
<1>1. \A f \in Flow : ended[f] >= Probation
  BY Parameters DEF Init, LongAgo
<1>2. TypeOK
  BY Bounds DEF Init, TypeOK, Status, NoPackets, LongAgo
<1>3. EchoesAreBarred
  BY <1>1, Parameters DEF EchoesAreBarred, Init, LongAgo
<1>4. QED
  BY <1>2, <1>3 DEF IInv, Init, ShowsWhatItHolds, NoGameNoIdentity, IdentityIsNotTheHost,
       TeardownNeverCounts, SwitchTakesTwoWindows, NoEchoRelock, ShownGameIsAlive

\* Every step keeps the types.
LEMMA TypeStep == ASSUME TypeOK, [Next]_vars PROVE TypeOK'
<1> USE DEF TypeOK
<1>1. CASE UNCHANGED vars
  BY <1>1 DEF vars, gameVars, barVars, clockVars
<1>2. CASE CloseGame
  BY <1>2, Bounds DEF CloseGame, Status, NoPackets, LongAgo
<1>3. ASSUME NEW d \in Nat, NEW raw \in Window, NewGame(raw, Clean(raw, d), d)
      PROVE  TypeOK'
  <2>1. ended' \in [Flow -> 0..Probation]
    BY <1>3, Clocks, Parameters DEF NewGame
  <2>2. probation' \in Flow \cup {Nil}
    BY <1>3, Reviewed DEF NewGame
  <2>3. server' \in Remote \cup {Nil}
    BY <1>3, Restarted, Parameters DEF NewGame, InGame
  <2>4. quarantine' \in SUBSET Flow
    BY <1>3, Restarted
  <2>5. /\ socket' \in LocalPort /\ flows' \in [Flow -> Nat] /\ locked' \in Flow \cup {Nil}
    BY <1>3, Restarted
  <2>6. QED
    BY <1>3, <2>1, <2>2, <2>3, <2>4, <2>5, Bounds DEF NewGame, InGame, Status
<1>4. ASSUME NEW d \in Nat, NEW raw \in Window, Review(raw, d),
             Enter(Clean(raw, d)) \/ Stay(Clean(raw, d))
      PROVE  TypeOK'
  <2>1. Accumulate(Sum(flows, Clean(raw, d)), locked, socket') /\ InGame
    BY <1>4 DEF Enter, Stay
  <2>2. socket' \in LocalPort
    BY <1>4, Hosts DEF Enter, Stay
  <2>3. quarantine' \in SUBSET Flow /\ probation' \in Flow \cup {Nil}
    BY <1>4, Reviewed DEF Review
  <2>4. flows' \in [Flow -> Nat] /\ locked' \in Flow \cup {Nil}
    BY <2>1, Counted
  <2>5. server' \in Remote \cup {Nil}
    BY <2>1, <2>4, Parameters DEF InGame
  <2>6. since' \in 0..(Ttl + 1) /\ ended' \in [Flow -> 0..Probation]
    BY <1>4, Clocks DEF Review, Pass
  <2>7. QED
    BY <2>1, <2>2, <2>3, <2>4, <2>5, <2>6, Bounds DEF InGame, Status
<1>5. ASSUME NEW d \in Nat, NEW raw \in Window, Review(raw, d), Hold(Clean(raw, d), d)
      PROVE  TypeOK'
  <2>1. Accumulate(Sum(flows, Clean(raw, d)), locked, socket')
    BY <1>5 DEF Hold
  <2>2. silence' \in 0..(Grace + 1)
    BY <1>5, Clocks, Bounds DEF Hold
  <2>3. server' \in Remote \cup {Nil}
    BY <1>5, <2>1, Counted, Parameters DEF Hold
  <2>4. QED
    BY <1>5, <2>1, <2>2, <2>3, Counted, Reviewed, Clocks DEF Hold, Review, Pass
<1>6. ASSUME NEW d \in Nat, NEW raw \in Window, Review(raw, d),
             \/ Pend(Clean(raw, d), d) \/ FallBack(Clean(raw, d), d) \/ Menu(Clean(raw, d), d)
      PROVE  TypeOK'
  <2>1. quarantine' \in SUBSET Flow /\ probation' \in Flow \cup {Nil}
    BY <1>6, Reviewed DEF Review
  <2>2. since' \in 0..(Ttl + 1) /\ ended' \in [Flow -> 0..Probation]
    BY <1>6, Clocks DEF Review, Pass
  <2>3. silence' \in 0..(Grace + 1)
    BY <1>6, Clocks, Bounds DEF Pend, FallBack, Menu
  <2>4. pending' \in LocalPort \cup {Nil}
    BY <1>6, Hosts DEF Pend, FallBack, Menu
  <2>5. QED
    BY <1>6, <2>1, <2>2, <2>3, <2>4 DEF Pend, FallBack, Menu, Demote, Status
<1>7. ASSUME NEW d \in Nat, Launch(d) \/ Socketless(d) \/ Suspend(d)
      PROVE  TypeOK'
  <2>1. since' \in 0..(Ttl + 1) /\ ended' \in [Flow -> 0..Probation]
    BY <1>7, Clocks DEF Launch, Socketless, Suspend, Pass
  <2>2. silence' \in 0..(Grace + 1)
    BY <1>7, Clocks, Bounds DEF Launch, Socketless, Suspend
  <2>3. QED
    BY <1>7, <2>1, <2>2 DEF Launch, Socketless, Suspend, Demote, Status, gameVars, barVars
<1>8. QED
  BY <1>1, <1>2, <1>3, <1>4, <1>5, <1>6, <1>7, Steps

\* What is published follows what is held.
LEMMA ShowsStep == ASSUME TypeOK, ShowsWhatItHolds, [Next]_vars PROVE ShowsWhatItHolds'
<1> USE DEF ShowsWhatItHolds
<1>1. CASE UNCHANGED vars
  BY <1>1 DEF vars, gameVars
<1>2. CASE CloseGame
  BY <1>2 DEF CloseGame
<1>3. ASSUME InGame, socket' # Nil
      PROVE  ShowsWhatItHolds'
  BY <1>3 DEF InGame
<1>4. ASSUME NEW d \in Nat, NEW raw \in Window, NewGame(raw, Clean(raw, d), d)
      PROVE  ShowsWhatItHolds'
  BY <1>3, <1>4, Restarted DEF NewGame
<1>5. ASSUME NEW w, Enter(w) \/ Stay(w)
      PROVE  ShowsWhatItHolds'
  BY <1>3, <1>5, Hosts DEF Enter, Stay
<1>6. ASSUME NEW d \in Nat, NEW raw \in Window, Hold(Clean(raw, d), d)
      PROVE  ShowsWhatItHolds'
  <2>1. Accumulate(Sum(flows, Clean(raw, d)), locked, socket')
    BY <1>6 DEF Hold
  <2>2. locked # Nil => locked' # Nil
    BY <2>1, Counted
  <2>3. QED
    BY <1>6, <2>2 DEF Hold
<1>7. ASSUME NEW w, NEW d, Pend(w, d) \/ FallBack(w, d) \/ Menu(w, d)
      PROVE  ShowsWhatItHolds'
  BY <1>7 DEF Pend, FallBack, Menu, Demote
<1>8. ASSUME NEW d, Launch(d) \/ Socketless(d) \/ Suspend(d)
      PROVE  ShowsWhatItHolds'
  BY <1>8 DEF Launch, Socketless, Suspend, Demote, gameVars
<1>9. QED
  BY <1>1, <1>2, <1>4, <1>5, <1>6, <1>7, <1>8, Steps

\* The identity is never on the game's socket, and there is none before a game.
LEMMA IdentityStep ==
  ASSUME TypeOK, NoGameNoIdentity, IdentityIsNotTheHost, [Next]_vars
  PROVE  NoGameNoIdentity' /\ IdentityIsNotTheHost'
<1> USE DEF NoGameNoIdentity, IdentityIsNotTheHost
<1>1. CASE UNCHANGED <<socket, locked>>
  BY <1>1
<1>2. CASE CloseGame
  BY <1>2 DEF CloseGame
<1>3. ASSUME NEW d \in Nat, NEW raw \in Window, NewGame(raw, Clean(raw, d), d)
      PROVE  NoGameNoIdentity' /\ IdentityIsNotTheHost'
  BY <1>3, Restarted
<1>4. ASSUME NEW d \in Nat, NEW raw \in Window,
             Enter(Clean(raw, d)) \/ Stay(Clean(raw, d)) \/ Hold(Clean(raw, d), d)
      PROVE  NoGameNoIdentity' /\ IdentityIsNotTheHost'
  <2>1. Accumulate(Sum(flows, Clean(raw, d)), locked, socket')
    BY <1>4 DEF Enter, Stay, Hold
  <2>2. socket' # Nil
    BY <1>4, Hosts DEF Enter, Stay, Hold
  <2>3. locked # Nil => socket' = socket
    BY <1>4 DEF Enter, Stay, Hold
  <2>4. locked' = locked \/ Port[locked'] # socket'
    BY <2>1, Counted
  <2>5. QED
    BY <2>2, <2>3, <2>4
<1>5. QED
  <2>1. ASSUME NEW w, NEW d, Pend(w, d) \/ FallBack(w, d) \/ Menu(w, d)
        PROVE  UNCHANGED <<socket, locked>>
    BY <2>1 DEF Pend, FallBack, Menu
  <2>2. ASSUME NEW d, Launch(d) \/ Socketless(d) \/ Suspend(d)
        PROVE  UNCHANGED <<socket, locked>>
    BY <2>2 DEF Launch, Socketless, Suspend, gameVars
  <2>3. UNCHANGED vars => UNCHANGED <<socket, locked>>
    BY DEF vars, gameVars
  <2>4. QED
    BY <1>1, <1>2, <1>3, <1>4, <2>1, <2>2, <2>3, Steps

\* Nothing that is barred has counted for the game.
LEMMA TeardownStep == ASSUME TypeOK, TeardownNeverCounts, [Next]_vars PROVE TeardownNeverCounts'
<1> USE DEF TeardownNeverCounts
<1>1. CASE quarantine' \subseteq quarantine /\ UNCHANGED flows
  BY <1>1
<1>2. CASE CloseGame
  BY <1>2 DEF CloseGame
<1>3. ASSUME NEW d \in Nat, NEW raw \in Window, NewGame(raw, Clean(raw, d), d)
      PROVE  TeardownNeverCounts'
  BY <1>3, Restarted
<1>4. ASSUME NEW d \in Nat, NEW raw \in Window, Review(raw, d),
             Enter(Clean(raw, d)) \/ Stay(Clean(raw, d)) \/ Hold(Clean(raw, d), d)
      PROVE  TeardownNeverCounts'
  <2>1. Accumulate(Sum(flows, Clean(raw, d)), locked, socket')
    BY <1>4 DEF Enter, Stay, Hold
  <2>2. quarantine' = Barred(raw, d) /\ Barred(raw, d) \subseteq quarantine
    BY <1>4, Reviewed DEF Review
  <2>3. QED
    BY <2>1, <2>2, Counted
<1>5. QED
  <2>1. ASSUME NEW d \in Nat, NEW raw \in Window, Review(raw, d),
               \/ Pend(Clean(raw, d), d) \/ FallBack(Clean(raw, d), d) \/ Menu(Clean(raw, d), d)
        PROVE  quarantine' \subseteq quarantine /\ UNCHANGED flows
    BY <2>1, Reviewed DEF Review, Pend, FallBack, Menu
  <2>2. ASSUME NEW d, Launch(d) \/ Socketless(d) \/ Suspend(d)
        PROVE  quarantine' \subseteq quarantine /\ UNCHANGED flows
    BY <2>2 DEF Launch, Socketless, Suspend, gameVars, barVars
  <2>3. UNCHANGED vars => quarantine' \subseteq quarantine /\ UNCHANGED flows
    BY DEF vars, gameVars, barVars
  <2>4. QED
    BY <1>1, <1>2, <1>3, <1>4, <2>1, <2>2, <2>3, Steps

\* Time takes an echo out of its probation no later than out of the quarantine.
LEMMA EchoesAge ==
  ASSUME TypeOK, EchoesAreBarred, NEW d \in Nat, Pass(d),
         Since(d) < Probation => UNCHANGED barVars
  PROVE  EchoesAreBarred'
<1> SUFFICES ASSUME NEW f \in Flow, ended'[f] < Probation
             PROVE  f \in quarantine' /\ probation' = f /\ since' = ended'[f]
  BY DEF EchoesAreBarred
<1>1. Probation \in Nat /\ Ttl \in Nat /\ Probation <= Ttl
  BY Parameters
<1>2. since' = Since(d) /\ ended'[f] = Aged(d)[f]
  BY DEF Pass
<1>3. ended[f] < Probation /\ ended'[f] = ended[f] + d
  BY <1>1, <1>2, Ages
<1>4. f \in quarantine /\ probation = f /\ since = ended[f]
  BY <1>3 DEF EchoesAreBarred
<1>5. Since(d) = since + d /\ Since(d) < Probation
  BY <1>1, <1>3, <1>4, Pace
<1>6. QED
  BY <1>2, <1>3, <1>4, <1>5 DEF barVars

\* A socket change under way only gets closer.
LEMMA SwitchAges ==
  ASSUME TypeOK, SwitchTakesTwoWindows, NEW d \in Nat, Pass(d), pending' \in {pending, Nil}
  PROVE  SwitchTakesTwoWindows'
<1>1. ASSUME NEW e \in Gap, since + e >= Probation
      PROVE  since' + e >= Probation
  <2>1. e \in Nat /\ Probation \in Nat
    BY Parameters
  <2>2. QED
    BY <1>1, <2>1, Pace DEF Pass
<1>2. QED
  BY <1>1 DEF SwitchTakesTwoWindows

\* A step ends at most one game, and only when the last one's echoes are over.
LEMMA EchoStep ==
  ASSUME TypeOK, EchoesAreBarred, SwitchTakesTwoWindows, [Next]_vars
  PROVE  EchoesAreBarred' /\ SwitchTakesTwoWindows'
<1>1. CASE UNCHANGED vars
  BY <1>1 DEF vars, gameVars, barVars, clockVars, EchoesAreBarred, SwitchTakesTwoWindows
<1>2. CASE CloseGame
  <2>1. \A f \in Flow : ended'[f] = Probation
    BY <1>2 DEF CloseGame, LongAgo
  <2>2. QED
    BY <1>2, <2>1, Parameters DEF CloseGame, EchoesAreBarred, SwitchTakesTwoWindows
<1>3. ASSUME NEW d \in Nat, d \in Gap, NEW raw \in Window, NewGame(raw, Clean(raw, d), d)
      PROVE  EchoesAreBarred' /\ SwitchTakesTwoWindows'
  <2>1. since + d >= Probation
    BY <1>3, Restarted DEF SwitchTakesTwoWindows
  <2>2. ASSUME NEW f \in Flow
        PROVE  Aged(d)[f] >= Probation
    <3>1. Probation \in Nat
      BY Parameters
    <3>2. CASE ended[f] < Probation
      BY <2>1, <3>1, <3>2, Ages DEF EchoesAreBarred
    <3>3. CASE ended[f] >= Probation
      BY <3>1, <3>3, Ages
    <3>4. QED
      BY <3>1, <3>2, <3>3, Ages
  <2>3. ASSUME NEW f \in Flow, ended'[f] < Probation
        PROVE  f \in quarantine' /\ probation' = f /\ since' = ended'[f]
    <3>1. ended'[f] = IF f = locked THEN 0 ELSE Aged(d)[f]
      BY <1>3 DEF NewGame
    <3>2. Aged(d)[f] \in Nat /\ Probation \in Nat
      BY Ages, Parameters
    <3>3. f = locked /\ ended'[f] = 0
      BY <2>2, <2>3, <3>1, <3>2
    <3>4. locked # Nil
      BY <3>3, Parameters
    <3>5. QED
      BY <1>3, <3>3, <3>4 DEF NewGame, Teardown
  <2>4. pending' = Nil
    BY <1>3 DEF NewGame, InGame
  <2>5. QED
    BY <2>3, <2>4 DEF EchoesAreBarred, SwitchTakesTwoWindows
<1>4. ASSUME NEW d \in Nat, d \in Gap, NEW raw \in Window, Review(raw, d),
             \/ Enter(Clean(raw, d)) \/ Stay(Clean(raw, d)) \/ Hold(Clean(raw, d), d)
             \/ Pend(Clean(raw, d), d) \/ FallBack(Clean(raw, d), d) \/ Menu(Clean(raw, d), d)
      PROVE  EchoesAreBarred' /\ SwitchTakesTwoWindows'
  <2>1. Pass(d) /\ (Since(d) < Probation => UNCHANGED barVars)
    BY <1>4, Reviewed DEF Review, barVars
  <2>2. CASE Pend(Clean(raw, d), d)
    <3>1. ASSUME NEW e \in Gap
          PROVE  Since(d) + e >= Probation
      <4>1. e \in Nat /\ Probation \in Nat
        BY Parameters
      <4>2. d + e >= Probation
        BY <1>4, TwoWindowsAssumption
      <4>3. QED
        BY <4>1, <4>2, Pace
    <3>2. SwitchTakesTwoWindows'
      BY <2>1, <3>1 DEF Pass, SwitchTakesTwoWindows
    <3>3. QED
      BY <2>1, <3>2, EchoesAge
  <2>3. CASE ~Pend(Clean(raw, d), d)
    <3>1. pending' = Nil
      BY <1>4, <2>3 DEF Enter, Stay, Hold, FallBack, Menu, InGame
    <3>2. QED
      BY <2>1, <3>1, EchoesAge, SwitchAges
  <2>4. QED
    BY <2>2, <2>3
<1>5. ASSUME NEW d \in Nat, Launch(d) \/ Socketless(d) \/ Suspend(d)
      PROVE  EchoesAreBarred' /\ SwitchTakesTwoWindows'
  <2>1. Pass(d) /\ UNCHANGED barVars /\ pending' = pending
    BY <1>5 DEF Launch, Socketless, Suspend, gameVars
  <2>2. QED
    BY <2>1, EchoesAge, SwitchAges
<1>6. QED
  BY <1>1, <1>2, <1>3, <1>4, <1>5, Steps

\* The identity is off probation: a lock is kept, or taken by a flow that counts,
\* which a barred flow does not.
LEMMA RelockStep ==
  ASSUME TypeOK, TeardownNeverCounts, EchoesAreBarred, NoEchoRelock, [Next]_vars,
         TypeOK', TeardownNeverCounts', EchoesAreBarred'
  PROVE  NoEchoRelock'
<1>1. ASSUME locked' # Nil, flows'[locked'] > 0
      PROVE  NoEchoRelock'
  <2>1. locked' \in Flow /\ ended'[locked'] \in Nat /\ Probation \in Nat
    BY <1>1, Parameters DEF TypeOK
  <2>2. locked' \notin quarantine'
    BY <1>1 DEF TeardownNeverCounts
  <2>3. QED
    BY <2>1, <2>2 DEF EchoesAreBarred, NoEchoRelock
<1>2. ASSUME NEW d \in Nat, Pass(d), locked' = locked
      PROVE  NoEchoRelock'
  <2>1. SUFFICES ASSUME locked # Nil PROVE ended'[locked] >= Probation
    BY <1>2 DEF NoEchoRelock
  <2>2. locked \in Flow /\ Probation \in Nat
    BY <2>1, Parameters DEF TypeOK
  <2>3. ended[locked] >= Probation
    BY <2>1 DEF NoEchoRelock
  <2>4. QED
    BY <1>2, <2>2, <2>3, Ages DEF Pass
<1>3. CASE UNCHANGED vars
  BY <1>3 DEF vars, gameVars, clockVars, NoEchoRelock
<1>4. CASE CloseGame
  BY <1>4 DEF CloseGame, NoEchoRelock
<1>5. ASSUME NEW d \in Nat, NEW raw \in Window, NewGame(raw, Clean(raw, d), d)
      PROVE  NoEchoRelock'
  BY <1>1, <1>5, Restarted DEF NoEchoRelock
<1>6. ASSUME NEW d \in Nat, NEW raw \in Window, Review(raw, d),
             Enter(Clean(raw, d)) \/ Stay(Clean(raw, d)) \/ Hold(Clean(raw, d), d)
      PROVE  NoEchoRelock'
  <2>1. Accumulate(Sum(flows, Clean(raw, d)), locked, socket') /\ Pass(d)
    BY <1>6 DEF Enter, Stay, Hold, Review
  <2>2. locked' = locked \/ (locked' \in Flow /\ flows'[locked'] > 0)
    BY <2>1, Counted
  <2>3. QED
    BY <1>1, <1>2, <2>1, <2>2, Parameters
<1>7. ASSUME NEW d \in Nat, NEW raw \in Window, Review(raw, d),
             \/ Pend(Clean(raw, d), d) \/ FallBack(Clean(raw, d), d) \/ Menu(Clean(raw, d), d)
      PROVE  NoEchoRelock'
  BY <1>2, <1>7 DEF Review, Pend, FallBack, Menu
<1>8. ASSUME NEW d \in Nat, Launch(d) \/ Socketless(d) \/ Suspend(d)
      PROVE  NoEchoRelock'
  BY <1>2, <1>8 DEF Launch, Socketless, Suspend, gameVars
<1>9. QED
  BY <1>3, <1>4, <1>5, <1>6, <1>7, <1>8, Steps

\* A step that leaves the game shown found its socket alive or within the grace, or
\* another socket pending.
LEMMA ShownStep ==
  ASSUME TypeOK, ShowsWhatItHolds, ShownGameIsAlive, [Next]_vars
  PROVE  ShownGameIsAlive'
<1> USE DEF ShownGameIsAlive
<1>1. CASE UNCHANGED vars
  BY <1>1 DEF vars, gameVars, clockVars
<1>2. CASE CloseGame
  BY <1>2 DEF CloseGame
<1>3. ASSUME silence' = 0
      PROVE  ShownGameIsAlive'
  BY <1>3, Parameters
<1>4. ASSUME NEW d \in Nat, ~Expired(Quiet(d)), silence' = Quiet(d)
      PROVE  ShownGameIsAlive'
  <2>1. Quiet(d) \in Nat /\ Grace \in Nat
    BY Clocks, Parameters
  <2>2. QED
    BY <1>4, <2>1 DEF Expired
<1>5. ASSUME NEW d \in Nat, NEW raw \in Window,
             NewGame(raw, Clean(raw, d), d) \/ Enter(Clean(raw, d)) \/ Stay(Clean(raw, d))
      PROVE  ShownGameIsAlive'
  BY <1>3, <1>5 DEF NewGame, Enter, Stay, InGame
<1>6. ASSUME NEW d \in Nat, NEW w, Hold(w, d)
      PROVE  ShownGameIsAlive'
  BY <1>3, <1>4, <1>6 DEF Hold
<1>7. ASSUME NEW d \in Nat, NEW w, Pend(w, d)
      PROVE  ShownGameIsAlive'
  BY <1>7, Hosts DEF Pend
<1>8. ASSUME NEW d \in Nat, NEW w, FallBack(w, d) \/ Menu(w, d)
      PROVE  ShownGameIsAlive'
  BY <1>8 DEF FallBack, Menu, Demote
<1>9. ASSUME NEW d \in Nat, Launch(d) \/ Socketless(d) \/ Suspend(d)
      PROVE  ShownGameIsAlive'
  <2>1. CASE Launch(d) \/ Suspend(d)
    BY <1>3, <2>1 DEF Launch, Suspend
  <2>2. CASE Socketless(d) /\ ~fallenBack /\ ~Expired(Quiet(d))
    BY <1>4, <2>2 DEF Socketless
  <2>3. CASE Socketless(d) /\ (fallenBack \/ Expired(Quiet(d)))
    BY <2>3 DEF Socketless, Demote, ShowsWhatItHolds
  <2>4. QED
    BY <1>9, <2>1, <2>2, <2>3
<1>10. QED
  BY <1>1, <1>2, <1>5, <1>6, <1>7, <1>8, <1>9, Steps

\* Every reachable state satisfies the inductive invariant.
THEOREM DetectionInvariant == Spec => []IInv
<1>1. IInv /\ [Next]_vars => IInv'
  <2> SUFFICES ASSUME IInv, [Next]_vars PROVE IInv'
    OBVIOUS
  <2> USE DEF IInv
  <2>1. TypeOK' /\ ShowsWhatItHolds' /\ TeardownNeverCounts' /\ ShownGameIsAlive'
    BY TypeStep, ShowsStep, TeardownStep, ShownStep
  <2>2. NoGameNoIdentity' /\ IdentityIsNotTheHost'
    BY IdentityStep
  <2>3. EchoesAreBarred' /\ SwitchTakesTwoWindows'
    BY EchoStep
  <2>4. NoEchoRelock'
    BY <2>1, <2>3, RelockStep
  <2>5. QED
    BY <2>1, <2>2, <2>3, <2>4
<1>2. QED
  BY InitHolds, <1>1, PTL DEF Spec

\* The detector's state is well typed: a pending socket is a socket, a lock a flow.
THEOREM DetectionTypes == Spec => []TypeOK
<1>1. IInv => TypeOK
  BY DEF IInv
<1>2. QED
  BY <1>1, DetectionInvariant, PTL

\* The frontend is told of a game and of a server exactly while they are held.
THEOREM PublishedIsHeld == Spec => []ShowsWhatItHolds
<1>1. IInv => ShowsWhatItHolds
  BY DEF IInv
<1>2. QED
  BY <1>1, DetectionInvariant, PTL

\* No flow of the game's socket is ever locked as the server's identity (#832).
THEOREM IdentityIsOffTheGameSocket == Spec => []IdentityIsNotTheHost
<1>1. IInv => IdentityIsNotTheHost
  BY DEF IInv
<1>2. QED
  BY <1>1, DetectionInvariant, PTL

\* The flows of the game a switch ended never count for the next one (#873).
THEOREM TeardownIsIgnored == Spec => []TeardownNeverCounts
<1>1. IInv => TeardownNeverCounts
  BY DEF IInv
<1>2. QED
  BY <1>1, DetectionInvariant, PTL

\* No identity is the echo of a game that a switch ended (#906).
THEOREM NoEchoIsLocked == Spec => []NoEchoRelock
<1>1. IInv => NoEchoRelock
  BY DEF IInv
<1>2. QED
  BY <1>1, DetectionInvariant, PTL

\* A game is not shown past its grace, unless a socket change is under way (#832).
THEOREM SilentGamesAreDemoted == Spec => []ShownGameIsAlive
<1>1. IInv => ShownGameIsAlive
  BY DEF IInv
<1>2. QED
  BY <1>1, DetectionInvariant, PTL

-----------------------------------------------------------------------------
(* What a step may do to the identity *)

\* An identity is given up only with its game, or for a rival with twice its packets.
THEOREM IdentitiesAreHeld == Spec => IdentityIsHeld
<1> DEFINE Held  == locked # Nil /\ locked' # locked =>
                      \/ socket' # socket
                      \/ locked' # Nil /\ flows'[locked'] >= 2 * flows'[locked]
           Shown == status = "InGame" /\ status' = "InGame" /\ server # Nil /\ server' = Nil =>
                      socket' # socket
<1>1. IInv /\ [Next]_vars => [Held /\ Shown]_vars
  <2> SUFFICES ASSUME IInv, Next PROVE Held /\ Shown
    BY DEF vars, gameVars
  <2>1. TypeOK /\ ShowsWhatItHolds /\ NoGameNoIdentity
    BY DEF IInv
  <2>2. CASE CloseGame
    BY <2>1, <2>2 DEF CloseGame, NoGameNoIdentity
  <2>3. ASSUME NEW d \in Nat, NEW raw \in Window, NewGame(raw, Clean(raw, d), d)
        PROVE  Held /\ Shown
    BY <2>1, <2>3, Restarted
  <2>4. ASSUME NEW d \in Nat, NEW raw \in Window,
               Enter(Clean(raw, d)) \/ Stay(Clean(raw, d)) \/ Hold(Clean(raw, d), d)
        PROVE  Held /\ Shown
    <3>1. Accumulate(Sum(flows, Clean(raw, d)), locked, socket')
      BY <2>4 DEF Enter, Stay, Hold
    <3>2. /\ locked # Nil => locked' # Nil
          /\ locked' \in Flow \cup {Nil}
          /\ locked' = locked \/ (locked # Nil => flows'[locked'] >= 2 * flows'[locked])
      BY <2>1, <3>1, Counted
    <3>3. server # Nil => server' # Nil
      BY <2>1, <2>4, <3>2, Parameters DEF Enter, Stay, Hold, InGame, ShowsWhatItHolds
    <3>4. QED
      BY <3>2, <3>3
  <2>5. ASSUME NEW w, NEW d, Pend(w, d) \/ FallBack(w, d) \/ Menu(w, d)
        PROVE  Held /\ Shown
    BY <2>5 DEF Pend, FallBack, Menu, Demote
  <2>6. ASSUME NEW d, Launch(d) \/ Socketless(d) \/ Suspend(d)
        PROVE  Held /\ Shown
    BY <2>6 DEF Launch, Socketless, Suspend, Demote, gameVars
  <2>7. CASE UNCHANGED vars
    BY <2>7 DEF vars, gameVars
  <2>8. QED
    BY <2>2, <2>3, <2>4, <2>5, <2>6, <2>7, Steps
<1>2. QED
  BY <1>1, DetectionInvariant, PTL DEF Spec, IdentityIsHeld
=============================================================================
