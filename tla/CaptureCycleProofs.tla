------------------------- MODULE CaptureCycleProofs -------------------------
(***************************************************************************)
(* Proofs about CaptureCycle, for any processes, ports, interfaces and     *)
(* packets, any churn during a scan and any window: the types, the         *)
(* candidate ports do not flap, the wineserver is the game's, no packet is *)
(* lost, and what a steady port of the game received is in a flow.         *)
(***************************************************************************)
EXTENDS CaptureCycle, InductionLemmas, SequenceTheorems, TLAPS

-----------------------------------------------------------------------------
(* The scan *)

\* A steady port's process still owns it, and is still to be looked up, or the
\* port is found.
ScanInv ==
  /\ alive \subseteq Pid
  /\ steady \subseteq Pid \X Port
  /\ step \in {"idle", "pids", "wineserver", "sockets", "done"}
  /\ failed \in BOOLEAN
  /\ step \in {"idle", "pids"} => steady = {}
  /\ step \in {"wineserver", "sockets"} =>
       \A h \in steady : h[1] \in owner[h[2]] /\ (h[1] \in targets \/ h[2] \in found \/ failed)
  /\ step = "wineserver" => \A h \in steady : h[1] \in targets
  /\ SteadyPortsAreFound

LEMMA ScanStart == ASSUME Init PROVE ScanInv
<1>1. step = "idle" /\ steady = {} /\ alive = {} /\ failed = FALSE
  BY DEF Init, PortsInit, NothingScanned
<1>2. QED
  BY <1>1 DEF ScanInv, SteadyPortsAreFound

\* What churn leaves steady was steady, and is still owned.
LEMMA ChurnKept ==
  ASSUME ScanInv, step \in {"wineserver", "sockets"}, Hold(owner'), alive' \subseteq alive,
         UNCHANGED <<step, targets, found, failed>>
  PROVE  ScanInv'
<1>1. steady' = {h \in steady : h[1] \in owner'[h[2]]}
  BY DEF Hold
<1>2. SteadyPortsAreFound'
  BY DEF SteadyPortsAreFound
<1>3. QED
  BY <1>1, <1>2 DEF ScanInv

LEMMA ScanKept == ASSUME ScanInv, PortsStep PROVE ScanInv'
<1>1. CASE BeginScan
  <2>1. step' = "pids" /\ alive' = Pid /\ step = "idle" /\ UNCHANGED <<steady, failed>>
    BY <1>1 DEF BeginScan, scanVars
  <2>2. SteadyPortsAreFound'
    BY <2>1 DEF SteadyPortsAreFound
  <2>3. QED
    BY <2>1, <2>2 DEF ScanInv
<1>2. CASE FindPids
  <2>1. /\ step' \in {"wineserver", "sockets"} /\ targets' = Games
        /\ steady' = {h \in Games \X Port : h[1] \in owner[h[2]]}
        /\ UNCHANGED <<owner, alive, failed, found>>
    BY <1>2 DEF FindPids, tableVars
  <2>2. Games \subseteq Pid /\ failed \in BOOLEAN
    BY <1>2 DEF FindPids, Games, ScanInv
  <2>3. \A h \in steady' : /\ h \in Pid \X Port /\ h[1] \in targets'
                           /\ h[1] \in owner'[h[2]]
    BY <2>1, <2>2
  <2>4. SteadyPortsAreFound'
    BY <2>1 DEF SteadyPortsAreFound
  <2>5. QED
    BY <2>1, <2>2, <2>3, <2>4 DEF ScanInv
<1>3. CASE FindNoPids
  <2>1. /\ step = "pids" /\ step' = "done" /\ steady' = {}
        /\ UNCHANGED <<alive, failed>>
    BY <1>3 DEF FindNoPids, ScanInv, tableVars, scanVars
  <2>2. SteadyPortsAreFound'
    BY <2>1 DEF SteadyPortsAreFound, SteadyPorts
  <2>3. QED
    BY <2>1, <2>2 DEF ScanInv
<1>4. CASE AddWineserver
  <2>1. /\ step = "wineserver" /\ step' = "sockets" /\ targets \subseteq targets'
        /\ UNCHANGED <<owner, alive, steady, found, failed>>
    BY <1>4 DEF AddWineserver, tableVars
  <2>2. SteadyPortsAreFound'
    BY <2>1 DEF SteadyPortsAreFound
  <2>3. QED
    BY <2>1, <2>2 DEF ScanInv
<1>5. CASE ReadSockets
  <2>1. PICK S \in SUBSET targets :
          /\ targets' = targets \ S
          /\ \/ Look(S) /\ failed' = failed
             \/ failed' = TRUE /\ found' = found
    BY <1>5 DEF ReadSockets
  <2>2. step = "sockets" /\ UNCHANGED <<step, steady, owner, alive>>
    BY <1>5 DEF ReadSockets, tableVars
  <2>3. ASSUME NEW h \in steady
        PROVE  h[1] \in targets' \/ h[2] \in found' \/ failed'
    <3>1. /\ h[1] \in owner[h[2]] /\ h[2] \in Port
          /\ h[1] \in targets \/ h[2] \in found \/ failed
      BY <2>2 DEF ScanInv
    <3>2. CASE failed' = TRUE /\ found' = found
      BY <3>2
    <3>3. CASE Look(S) /\ failed' = failed
      <4>1. h[1] \in S => h[2] \in OwnedBy(S)
        BY <3>1 DEF OwnedBy
      <4>2. QED
        BY <2>1, <3>1, <3>3, <4>1 DEF Look
    <3>4. QED
      BY <2>1, <3>2, <3>3
  <2>4. SteadyPortsAreFound'
    BY <2>2 DEF SteadyPortsAreFound
  <2>5. QED
    BY <2>1, <2>2, <2>3, <2>4 DEF ScanInv
<1>6. CASE EndScan
  <2>1. /\ step = "sockets" /\ targets = {} /\ step' = "done"
        /\ UNCHANGED <<owner, alive, steady, targets, found, failed>>
    BY <1>6 DEF EndScan, tableVars, scanVars
  <2>2. \A h \in steady : h[2] \in found \/ failed
    BY <2>1 DEF ScanInv
  <2>3. SteadyPortsAreFound'
    BY <2>1, <2>2 DEF SteadyPortsAreFound, SteadyPorts
  <2>4. QED
    BY <2>1, <2>3 DEF ScanInv
<1>7. ASSUME NEW p \in Pid, Exits(p) \/ \E q \in Port : Opens(p, q) \/ Closes(p, q)
      PROVE  ScanInv'
  <2>1. /\ step \in {"wineserver", "sockets"} /\ Hold(owner') /\ alive' \subseteq alive
        /\ UNCHANGED <<step, targets, found, failed>>
    BY <1>7 DEF Exits, Opens, Closes, Churning, scanVars
  <2>2. QED
    BY <2>1, ChurnKept
<1>8. QED
  BY <1>1, <1>2, <1>3, <1>4, <1>5, <1>6, <1>7 DEF PortsStep

-----------------------------------------------------------------------------
(* The ancestor chains *)

LEMMA LeastIsLeast ==
  ASSUME NEW S, S \subseteq Nat, S # {} PROVE Least(S) \in S /\ \A q \in S : Least(S) <= q
BY LeastNatural DEF Least

\* A walk from p to parents, without a process twice.
Walk(c, p) ==
  /\ c \in Seq(Pid) /\ Len(c) >= 1 /\ c[1] = p
  /\ \A i \in 1..(Len(c) - 1) : c[i + 1] = ParentOf(c[i])
  /\ \A i, j \in 1..Len(c) : c[i] = c[j] => i = j

\* The walk is at the root, or would turn back.
Ended(s) == ParentOf(s[Len(s)]) = 0 \/ \E i \in DOMAIN s : s[i] = ParentOf(s[Len(s)])

\* One step up the tree, if there is one.
Climbed(s) == IF Ended(s) THEN s ELSE Append(s, ParentOf(s[Len(s)]))

LEMMA ParentType ==
  ASSUME PortsTypeOK, NEW p \in Pid PROVE ParentOf(p) \in Pid \cup {0}
BY DEF PortsTypeOK, ParentOf

LEMMA ClimbWalks ==
  ASSUME PortsTypeOK, NEW p \in Pid, NEW s, Walk(s, p) PROVE Walk(Climbed(s), p)
<1> DEFINE q == ParentOf(s[Len(s)])
<1>0. Len(s) \in Nat /\ Len(s) >= 1
  BY DEF Walk
<1>1. s \in Seq(Pid) /\ Len(s) \in Nat /\ Len(s) >= 1 /\ DOMAIN s = 1..Len(s)
  BY DEF Walk
<1>2. s[Len(s)] \in Pid
  BY <1>1
<1>3. q \in Pid \cup {0}
  BY <1>2, ParentType
<1>4. CASE Ended(s)
  BY <1>4 DEF Climbed
<1>5. CASE q # 0 /\ \A i \in DOMAIN s : s[i] # q
  <2> DEFINE t == Append(s, q)
  <2>1. Climbed(s) = t
    BY <1>5 DEF Climbed, Ended
  <2>2. /\ t \in Seq(Pid) /\ Len(t) = Len(s) + 1 /\ t[Len(s) + 1] = q
        /\ \A i \in 1..Len(s) : t[i] = s[i]
    BY <1>1, <1>3, <1>5
  <2> HIDE DEF t
  <2>3. t[1] = p
    BY <1>1, <2>2 DEF Walk
  <2>4. \A i \in 1..(Len(t) - 1) : t[i + 1] = ParentOf(t[i])
    <3>1. ASSUME NEW i \in 1..Len(s) PROVE t[i + 1] = ParentOf(t[i])
      <4>1. CASE i = Len(s)
        BY <1>1, <2>2, <4>1
      <4>2. CASE i # Len(s)
        <5>1. i \in 1..(Len(s) - 1) /\ i + 1 \in 1..Len(s)
          BY <1>0, <4>2
        <5>2. s[i + 1] = ParentOf(s[i])
          BY <5>1 DEF Walk
        <5>3. QED
          BY <2>2, <5>1, <5>2
      <4>3. QED
        BY <4>1, <4>2
    <3>2. QED
      BY <1>1, <2>2, <3>1
  <2>5. \A i, j \in 1..Len(t) : t[i] = t[j] => i = j
    BY <1>1, <1>5, <2>2 DEF Walk
  <2>6. QED
    BY <1>1, <2>1, <2>2, <2>3, <2>4, <2>5 DEF Walk
<1>6. QED
  BY <1>4, <1>5 DEF Ended

\* There are no more processes to walk to than there are.
LEMMA WalkIsShort == ASSUME NEW c, NEW p, Walk(c, p) PROVE Len(c) <= Cardinality(Pid)
<1> DEFINE f == [i \in 1..Len(c) |-> c[i]]
<1>0. Len(c) \in Nat
  BY DEF Walk
<1>1. \A i \in 1..Len(c) : c[i] \in Pid
  BY DEF Walk
<1>2. \A i, j \in 1..Len(c) : f[i] = f[j] => i = j
  BY DEF Walk
<1>3. f \in Injection(1..Len(c), Pid)
  BY <1>1, <1>2 DEF Injection, IsInjective
<1>4. Cardinality(1..Len(c)) <= Cardinality(Pid)
  BY <1>3, PortsAssumption, FS_Injection
<1>5. Cardinality(1..Len(c)) = Len(c)
  <2> DEFINE n == Len(c)
  <2>1. n \in Nat
    BY <1>0
  <2> HIDE DEF n
  <2>2. Cardinality(1..n) = n
    BY <2>1, FS_Interval
  <2>3. QED
    BY <2>2 DEF n
<1>6. QED
  BY <1>4, <1>5

\* ancestor_chain walks up the tree as far as it goes.
LEMMA ChainWalks ==
  ASSUME PortsTypeOK, NEW p \in Pid PROVE Walk(Chain(p), p) /\ Ended(Chain(p))
<1> DEFINE N == Cardinality(Pid)
           S == Seq(Pid) \ {<<>>}
           G == [x \in Nat \X S |-> Climbed(x[2])]
           IsChain(c) == c = [n \in 0..N |-> IF n = 0 THEN <<p>> ELSE Climbed(c[n - 1])]
           c == CHOOSE c : IsChain(c)
<1>1. N \in Nat
  BY PortsAssumption, FS_CardinalityType
<1>2. Chain(p) = c[N]
  BY DEF Chain, Climbed, Ended
<1>3. <<p>> \in S
  OBVIOUS
<1>4. G \in [Nat \X S -> S]
  <2>1. ASSUME NEW s \in S PROVE Climbed(s) \in S
    <3>1. s[Len(s)] \in Pid
      OBVIOUS
    <3>2. ParentOf(s[Len(s)]) \in Pid \cup {0}
      BY <3>1, ParentType
    <3>3. QED
      BY <3>2 DEF Climbed, Ended
  <2>2. QED
    BY <2>1
<1>5. \E f : IsChain(f)
  <2>1. PICK f \in [0..N -> S] : Recurs(f, N, <<p>>, G)
    <3> HIDE DEF G, S, N
    <3>1. QED
      BY <1>1, <1>3, <1>4, IntervalRecursion
  <2>2. \A n \in 1..N : f[n] = Climbed(f[n - 1])
    <3>1. ASSUME NEW n \in 1..N PROVE f[n] = Climbed(f[n - 1])
      <4> HIDE DEF S, N
      <4>1. n \in Nat /\ n - 1 \in 0..N
        BY <1>1
      <4>2. f[n - 1] \in S
        BY <4>1
      <4>3. f[n] = G[<<n, f[n - 1]>>]
        BY <2>1 DEF Recurs
      <4>4. QED
        BY <4>1, <4>2, <4>3
    <3>2. QED
      BY <3>1
  <2>3. IsChain(f)
    <3> DEFINE a == <<p>>
    <3> HIDE DEF S, N, a
    <3>1. f[0] = a /\ f = [n \in 0..N |-> f[n]]
      BY <2>1 DEF a, Recurs
    <3>2. f = [n \in 0..N |-> IF n = 0 THEN a ELSE Climbed(f[n - 1])]
      BY <1>1, <2>2, <3>1
    <3>3. QED
      BY <3>2 DEF a
  <2>4. QED
    BY <2>3
<1>6. IsChain(c)
  <2> HIDE DEF IsChain
  <2>1. QED
    BY <1>5
<1> HIDE DEF c
<1>7. c[0] = <<p>> /\ \A n \in 1..N : c[n] = Climbed(c[n - 1])
  <2>1. \A n \in 0..N : c[n] = IF n = 0 THEN <<p>> ELSE Climbed(c[n - 1])
    BY <1>6
  <2>2. QED
    BY <1>1, <2>1
<1> DEFINE Far(n) == Walk(c[n], p) /\ (Ended(c[n]) \/ Len(c[n]) = n + 1)
<1>8. 0..N \subseteq {n \in Nat : Far(n)}
  <2> DEFINE T == {n \in Nat : Far(n)}
  <2>1. 0 \in T
    <3>1. Walk(<<p>>, p) /\ Len(<<p>>) = 1
      BY DEF Walk
    <3>2. QED
      BY <1>7, <3>1
  <2>2. ASSUME NEW n \in Nat, n \in T, n < N PROVE n + 1 \in T
    <3>1. c[n + 1] = Climbed(c[n]) /\ Far(n)
      BY <1>1, <1>7, <2>2
    <3>2. Walk(c[n + 1], p)
      BY <3>1, ClimbWalks
    <3>3. CASE Ended(c[n])
      BY <3>1, <3>2, <3>3 DEF Climbed
    <3>4. CASE ~Ended(c[n])
      <4>1. c[n + 1] = Append(c[n], ParentOf(c[n][Len(c[n])]))
        BY <3>1, <3>4 DEF Climbed
      <4>2. c[n] \in Seq(Pid) /\ Len(c[n]) = n + 1
        BY <3>1, <3>4 DEF Walk
      <4>3. Len(c[n + 1]) = (n + 1) + 1
        BY <4>1, <4>2
      <4>4. QED
        BY <3>2, <4>3
    <3>5. QED
      BY <3>3, <3>4
  <2> HIDE DEF T
  <2>3. QED
    BY <1>1, <2>1, <2>2, IntervalInduction DEF T
<1>9. Far(N)
  <2> HIDE DEF Far
  <2>1. QED
    BY <1>1, <1>8
<1>10. Len(c[N]) # N + 1
  BY <1>1, <1>9, WalkIsShort DEF Walk
<1>11. QED
  BY <1>2, <1>9, <1>10

\* The place of the game's chain where p's joins it.
LEMMA DepthIsAPlace ==
  ASSUME PortsTypeOK, NEW g \in Pid, NEW p \in Pid, Common(g, p) # {}
  PROVE  /\ Least(Common(g, p)) \in 1..Len(Chain(p))
         /\ \A i \in Common(g, p) : Least(Common(g, p)) <= i
         /\ Depth(g, p) \in 1..Len(Chain(g))
         /\ Chain(g)[Depth(g, p)] = Chain(p)[Least(Common(g, p))]
<1>1. Walk(Chain(g), g) /\ Walk(Chain(p), p)
  BY ChainWalks
<1>2. /\ Len(Chain(g)) \in Nat /\ DOMAIN Chain(g) = 1..Len(Chain(g))
      /\ Len(Chain(p)) \in Nat /\ DOMAIN Chain(p) = 1..Len(Chain(p))
  BY <1>1 DEF Walk
<1>3. Common(g, p) \subseteq Nat
  BY <1>2 DEF Common
<1>4. Least(Common(g, p)) \in Common(g, p) /\ \A i \in Common(g, p) : Least(Common(g, p)) <= i
  BY <1>3, LeastIsLeast
<1>5. /\ Depth(g, p) \in DOMAIN Chain(g)
      /\ Chain(g)[Depth(g, p)] = Chain(p)[Least(Common(g, p))]
  BY <1>4 DEF Common, Depth
<1>6. QED
  BY <1>2, <1>4, <1>5 DEF Common

\* What resolve_wineserver returns.
LEMMA ResolveChooses ==
  ASSUME PortsTypeOK, NEW g \in Pid
  PROVE  /\ Siblings(g) # {} => Resolve(g) \in Siblings(g)
         /\ Siblings(g) = {} /\ Related(g) = {} => Resolve(g) = Nil
         /\ Siblings(g) = {} /\ Related(g) # {} =>
              /\ Resolve(g) \in Related(g)
              /\ \A w \in Related(g) : Depth(g, Resolve(g)) <= Depth(g, w)
<1>1. Wineservers \subseteq Pid /\ Pid \subseteq Nat
  BY PortsAssumption DEF Wineservers, PortsTypeOK
<1>2. CASE Siblings(g) # {}
  <2>1. Siblings(g) \subseteq Nat
    BY <1>1 DEF Siblings
  <2>2. QED
    BY <1>2, <2>1, LeastIsLeast DEF Resolve
<1>3. CASE Siblings(g) = {} /\ Related(g) = {}
  BY <1>3 DEF Resolve
<1>4. CASE Siblings(g) = {} /\ Related(g) # {}
  <2> DEFINE Depths == {Depth(g, w) : w \in Related(g)}
             nearest == Least(Depths)
             Near == {w \in Related(g) : Depth(g, w) = nearest}
  <2>1. Related(g) \subseteq Pid
    BY <1>1 DEF Related
  <2>2. \A w \in Related(g) : Depth(g, w) \in Nat
    <3>1. ASSUME NEW w \in Related(g) PROVE Depth(g, w) \in Nat
      <4>1. Depth(g, w) \in 1..Len(Chain(g))
        BY <2>1, DepthIsAPlace DEF Related
      <4>2. Len(Chain(g)) \in Nat
        BY ChainWalks DEF Walk
      <4>3. QED
        BY <4>1, <4>2
    <3>2. QED
      BY <3>1
  <2>3. Depths \subseteq Nat /\ Depths # {}
    BY <1>4, <2>2
  <2>4. nearest \in Depths /\ \A d \in Depths : nearest <= d
    <3> HIDE DEF Depths
    <3>1. QED
      BY <2>3, LeastIsLeast
  <2>5. Near \subseteq Nat /\ Near # {}
    BY <1>1, <2>1, <2>4
  <2>6. Resolve(g) = Least(Near)
    BY <1>4 DEF Resolve
  <2>7. Resolve(g) \in Near
    <3> HIDE DEF Near
    <3>1. QED
      BY <2>5, <2>6, LeastIsLeast
  <2>8. QED
    BY <1>4, <2>4, <2>7
<1>5. QED
  BY <1>2, <1>3, <1>4

LEMMA ResolveType ==
  ASSUME PortsTypeOK, NEW g \in Pid PROVE Resolve(g) \in Wineservers \cup {Nil}
BY ResolveChooses DEF Siblings, Related

-----------------------------------------------------------------------------
(* The wineserver chosen *)

LEMMA AncestorsClosed ==
  ASSUME PortsTypeOK, NEW p \in Pid, NEW x \in Ancestors(p), ParentOf(x) # 0
  PROVE  ParentOf(x) \in Ancestors(p)
<1> DEFINE c == Chain(p)
<1>1. Walk(c, p) /\ Ended(c) /\ Ancestors(p) = {c[i] : i \in DOMAIN c}
  BY ChainWalks DEF Ancestors
<1> HIDE DEF c
<1>0. Len(c) \in Nat
  BY <1>1 DEF Walk
<1>2. DOMAIN c = 1..Len(c)
  BY <1>1 DEF Walk
<1>3. PICK i \in 1..Len(c) : x = c[i]
  BY <1>1, <1>2
<1>4. CASE i = Len(c)
  BY <1>1, <1>3, <1>4 DEF Ended
<1>5. CASE i # Len(c)
  <2>1. i \in 1..(Len(c) - 1) /\ i + 1 \in 1..Len(c)
    BY <1>0, <1>5
  <2>2. c[i + 1] = ParentOf(x)
    BY <1>1, <1>3, <2>1 DEF Walk
  <2>3. QED
    BY <1>1, <1>2, <2>1, <2>2
<1>6. QED
  BY <1>4, <1>5

\* From where a chain meets the ancestors of q it stays among them.
LEMMA SharedOnwards ==
  ASSUME PortsTypeOK, NEW q \in Pid, NEW p, NEW c, Walk(c, p),
         NEW i \in 1..Len(c), c[i] \in Ancestors(q)
  PROVE  \A j \in i..Len(c) : c[j] \in Ancestors(q)
<1> DEFINE T == {k \in Nat : c[i + k] \in Ancestors(q)}
<1>1. Len(c) \in Nat /\ c \in Seq(Pid) /\ 0 \notin Pid
  BY PortsAssumption DEF Walk
<1>2. Len(c) - i \in Nat /\ i \in Nat
  BY <1>1
<1>3. 0 \in T
  BY <1>2
<1>4. ASSUME NEW k \in Nat, k \in T, k < Len(c) - i PROVE k + 1 \in T
  <2>1. i + k \in 1..(Len(c) - 1) /\ i + (k + 1) = (i + k) + 1 /\ i + (k + 1) \in 1..Len(c)
    BY <1>1, <1>2, <1>4
  <2>2. c[i + (k + 1)] = ParentOf(c[i + k]) /\ c[i + (k + 1)] \in Pid
    BY <1>1, <2>1 DEF Walk
  <2>3. ParentOf(c[i + k]) \in Ancestors(q)
    BY <1>1, <1>4, <2>2, AncestorsClosed
  <2>4. QED
    BY <2>2, <2>3
<1>5. 0..(Len(c) - i) \subseteq T
  <2> HIDE DEF T
  <2>1. QED
    BY <1>2, <1>3, <1>4, IntervalInduction
<1>6. ASSUME NEW j \in i..Len(c) PROVE c[j] \in Ancestors(q)
  <2>1. j - i \in 0..(Len(c) - i) /\ i + (j - i) = j
    BY <1>1, <1>2
  <2>2. QED
    BY <1>5, <2>1
<1>7. QED
  BY <1>6

\* The chain that joins the game's nearer to the game shares more of it.
LEMMA NearerSharesMore ==
  ASSUME PortsTypeOK, NEW g \in Pid, NEW w \in Pid, NEW v \in Pid,
         Common(g, w) # {}, Common(g, v) # {}, Depth(g, w) <= Depth(g, v)
  PROVE  Ancestors(g) \cap Ancestors(v) \subseteq Ancestors(w)
<1> DEFINE c == Chain(g)
           d == Chain(v)
           i == Least(Common(g, v))
           j == Depth(g, w)
           k == Depth(g, v)
<1>1. Walk(c, g) /\ Walk(d, v) /\ Walk(Chain(w), w)
  BY ChainWalks
<1>2. /\ i \in 1..Len(d) /\ k \in 1..Len(c) /\ c[k] = d[i]
      /\ \A n \in Common(g, v) : i <= n
  BY DepthIsAPlace
<1>3. j \in 1..Len(c) /\ c[j] \in Ancestors(w)
  <2>1. /\ Least(Common(g, w)) \in 1..Len(Chain(w)) /\ j \in 1..Len(c)
        /\ c[j] = Chain(w)[Least(Common(g, w))]
    BY DepthIsAPlace
  <2>2. DOMAIN Chain(w) = 1..Len(Chain(w))
    BY <1>1 DEF Walk
  <2>3. QED
    BY <2>1, <2>2 DEF Ancestors
<1>4. /\ Common(g, v) = {n \in DOMAIN d : \E m \in DOMAIN c : c[m] = d[n]}
      /\ Ancestors(g) = {c[m] : m \in DOMAIN c}
      /\ Ancestors(v) = {d[n] : n \in DOMAIN d}
      /\ j <= k
  BY DEF Common, Ancestors
<1>5. /\ Len(c) \in Nat /\ DOMAIN c = 1..Len(c)
      /\ Len(d) \in Nat /\ DOMAIN d = 1..Len(d)
  BY <1>1 DEF Walk
<1> HIDE DEF c, d, i, j, k
<1>6. c[k] \in Ancestors(w)
  <2>1. \A m \in j..Len(c) : c[m] \in Ancestors(w)
    BY <1>1, <1>3, SharedOnwards
  <2>2. k \in j..Len(c)
    BY <1>2, <1>3, <1>4, <1>5
  <2>3. QED
    BY <2>1, <2>2
<1>7. \A n \in i..Len(d) : d[n] \in Ancestors(w)
  BY <1>1, <1>2, <1>6, SharedOnwards
<1>8. SUFFICES ASSUME NEW m \in DOMAIN c, NEW n \in DOMAIN d, c[m] = d[n]
               PROVE  d[n] \in Ancestors(w)
  BY <1>4
<1>9. i <= n /\ n \in i..Len(d)
  BY <1>2, <1>4, <1>5, <1>8
<1>10. QED
  BY <1>7, <1>9

\* The wineserver chosen is the closest in any process tables.
LEMMA ClosestIsChosen == ASSUME PortsTypeOK, first \in Pid PROVE WineserverIsTheClosest
<1> DEFINE g == first
           w == Resolve(g)
           shared(v) == Ancestors(g) \cap Ancestors(v)
<1> SUFFICES /\ w = Nil <=> \A v \in Wineservers : shared(v) = {}
             /\ w # Nil =>
                  /\ w \in Wineservers /\ shared(w) # {}
                  /\ IF \E v \in Wineservers : parent[v] = ParentOf(g) /\ parent[v] # 0
                       THEN parent[w] = ParentOf(g)
                       ELSE \A v \in Wineservers : shared(v) \subseteq shared(w)
  BY DEF WineserverIsTheClosest
<1>1. Wineservers \subseteq Pid /\ Nil \notin Pid /\ 0 \notin Pid
  BY PortsAssumption DEF Wineservers, PortsTypeOK
<1>2. Related(g) = {v \in Wineservers : shared(v) # {}}
  BY DEF Related, Common, Ancestors
<1>3. Siblings(g) \subseteq Related(g)
  <2>1. ASSUME NEW p \in Pid PROVE p \in Ancestors(p)
    <3>1. 1 \in DOMAIN Chain(p) /\ Chain(p)[1] = p
      BY ChainWalks DEF Walk
    <3>2. QED
      BY <3>1 DEF Ancestors
  <2>2. SUFFICES ASSUME NEW v \in Siblings(g) PROVE v \in Related(g)
    OBVIOUS
  <2>3. v \in Wineservers /\ v \in Pid /\ ParentOf(g) # 0 /\ ParentOf(v) = ParentOf(g)
    BY <1>1 DEF Siblings, ParentOf, Wineservers
  <2>4. ParentOf(g) \in Ancestors(g) /\ ParentOf(g) \in Ancestors(v)
    BY <2>1, <2>3, AncestorsClosed
  <2>5. QED
    BY <1>2, <2>3, <2>4
<1>4. CASE Siblings(g) # {}
  <2>1. w \in Siblings(g)
    BY <1>4, ResolveChooses
  <2>2. w \in Wineservers /\ shared(w) # {} /\ w # Nil /\ parent[w] = ParentOf(g)
    BY <1>1, <1>2, <1>3, <2>1 DEF Siblings
  <2>3. \E v \in Wineservers : parent[v] = ParentOf(g) /\ parent[v] # 0
    BY <2>1 DEF Siblings
  <2>4. QED
    BY <2>2, <2>3
<1>5. CASE Siblings(g) = {} /\ Related(g) = {}
  BY <1>2, <1>5, ResolveChooses
<1>6. CASE Siblings(g) = {} /\ Related(g) # {}
  <2>1. w \in Related(g) /\ \A v \in Related(g) : Depth(g, w) <= Depth(g, v)
    BY <1>6, ResolveChooses
  <2>2. w \in Wineservers /\ shared(w) # {} /\ w # Nil
    BY <1>1, <1>2, <2>1
  <2>3. ~ \E v \in Wineservers : parent[v] = ParentOf(g) /\ parent[v] # 0
    BY <1>6 DEF Siblings
  <2>4. ASSUME NEW v \in Wineservers PROVE shared(v) \subseteq shared(w)
    <3>1. CASE v \in Related(g)
      <4>1. Common(g, v) # {} /\ Common(g, w) # {} /\ Depth(g, w) <= Depth(g, v)
        BY <2>1, <3>1 DEF Related
      <4>2. QED
        BY <1>1, <2>2, <4>1, NearerSharesMore
    <3>2. CASE v \notin Related(g)
      BY <1>2, <3>2
    <3>3. QED
      BY <3>1, <3>2
  <2>5. QED
    BY <2>2, <2>3, <2>4
<1>7. QED
  BY <1>4, <1>5, <1>6

-----------------------------------------------------------------------------
(* The window *)

\* The packet p is in a flow, or in a thread's hand.
Kept(p) == FlowOf(p) \in DOMAIN agg \/ \E i \in Iface : hand[i] = p

WindowInv ==
  /\ stage \in {"idle", "helper", "capture", "done"}
  /\ stage # "idle" => step = "done" /\ filter = found
  /\ stage \in {"idle", "helper"} => heard = {}
  /\ heard \subseteq Packet
  /\ thread \in [Iface -> {"open", "read", "stamp", "observe", "over"}]
  /\ hand \in [Iface -> Packet \cup {Nobody}]
  /\ \A i \in Iface : hand[i] # Nobody <=> thread[i] \in {"stamp", "observe"}
  /\ stage = "capture" => \A p \in heard : Hits(p) => Kept(p)
  /\ stage = "done" => \A p \in heard : Hits(p) => FlowOf(p) \in DOMAIN flows

LEMMA WindowStart == ASSUME Init PROVE WindowInv
<1>1. /\ stage = "idle" /\ heard = {} /\ thread = NewThreads /\ hand = NoPackets
  BY DEF Init, CaptureInit
<1>2. QED
  BY <1>1 DEF WindowInv, NewThreads, NoPackets

\* A capture that begins anew has heard nothing.
LEMMA AfreshKept ==
  ASSUME Afresh, stage' \in {"idle", "capture"},
         stage' # "idle" => step' = "done" /\ filter' = found'
  PROVE  WindowInv'
BY DEF Afresh, WindowInv, NewThreads, NoPackets

\* A thread that is done with one thing and has read nothing.
LEMMA ThreadMoves ==
  ASSUME WindowInv, NEW i \in Iface, NEW to \in {"open", "read", "stamp", "observe", "over"},
         thread' = [thread EXCEPT ![i] = to],
         thread[i] \in {"stamp", "observe"} <=> to \in {"stamp", "observe"},
         UNCHANGED <<stage, step, filter, found, hand, agg, flows, heard>>
  PROVE  WindowInv'
<1>1. \A p : /\ Hits(p)' <=> Hits(p)
             /\ Kept(p)' <=> Kept(p)
             /\ FlowOf(p)' = FlowOf(p)
  BY DEF Hits, Kept, FlowOf, Outbound
<1>2. QED
  BY <1>1 DEF WindowInv

LEMMA ReadKept ==
  ASSUME WindowInv, NEW i \in Iface, ReadPacket(i), UNCHANGED <<step, found>>
  PROVE  WindowInv'
<1>1. PICK p \in Packet :
        /\ IF Hits(p)
             THEN Step(i, "read", "stamp") /\ hand' = [hand EXCEPT ![i] = p]
             ELSE Step(i, "read", Back) /\ hand' = hand
        /\ heard' = heard \cup {p}
  BY DEF ReadPacket
<1>2. /\ stage = "capture" /\ thread[i] = "read" /\ hand[i] = Nobody
      /\ UNCHANGED <<stage, filter, agg, flows>>
  BY <1>1 DEF ReadPacket, Step, WindowInv, outVars
<1>3. \A q : /\ Hits(q)' <=> Hits(q)
             /\ FlowOf(q)' = FlowOf(q)
  BY <1>2 DEF Hits, FlowOf, Outbound
<1>4. \A q \in heard : Hits(q) => Kept(q)
  BY <1>2 DEF WindowInv
<1>5. Nobody \notin Packet
  BY CaptureAssumption
<1>6. CASE Hits(p)
  <2>1. /\ thread' = [thread EXCEPT ![i] = "stamp"] /\ hand' = [hand EXCEPT ![i] = p]
    BY <1>1, <1>6 DEF Step
  <2>2. \A q \in heard' : Hits(q)' => Kept(q)'
    <3>1. hand'[i] = p /\ \A j \in Iface \ {i} : hand'[j] = hand[j]
      BY <2>1 DEF WindowInv
    <3>2. ASSUME NEW q \in heard, Hits(q) PROVE Kept(q)'
      <4>1. Kept(q) /\ q # Nobody
        BY <1>4, <1>5, <3>2 DEF WindowInv
      <4>2. QED
        BY <1>2, <1>3, <3>1, <4>1 DEF Kept
    <3>3. Kept(p)'
      BY <3>1 DEF Kept
    <3>4. QED
      BY <1>1, <1>3, <3>2, <3>3
  <2>3. QED
    BY <1>1, <1>2, <1>5, <2>1, <2>2 DEF WindowInv
<1>7. CASE ~Hits(p)
  <2>1. /\ thread' = [thread EXCEPT ![i] = Back] /\ hand' = hand /\ Back \in {"read", "over"}
    BY <1>1, <1>7 DEF Step, Back
  <2>2. \A q : Kept(q)' <=> Kept(q)
    BY <1>2, <1>3, <2>1 DEF Kept
  <2>3. \A q \in heard' : Hits(q)' => Kept(q)'
    BY <1>1, <1>3, <1>4, <1>7, <2>2
  <2>4. QED
    BY <1>1, <1>2, <2>1, <2>3 DEF WindowInv
<1>8. QED
  BY <1>6, <1>7

LEMMA ObserveKept ==
  ASSUME WindowInv, NEW i \in Iface, ObserveIt(i), UNCHANGED <<step, found>>
  PROVE  WindowInv'
<1>1. /\ stage = "capture" /\ thread[i] = "observe"
      /\ thread' = [thread EXCEPT ![i] = Back] /\ hand' = [hand EXCEPT ![i] = Nobody]
      /\ Back \in {"read", "over"}
      /\ agg' = Observed(agg, hand[i], stamp[i])
      /\ UNCHANGED <<stage, filter, flows, heard>>
  BY DEF ObserveIt, Step, Back, outVars, historyVars
<1>2. \A q : /\ Hits(q)' <=> Hits(q)
             /\ FlowOf(q)' = FlowOf(q)
  BY <1>1 DEF Hits, FlowOf, Outbound
<1>3. DOMAIN agg' = DOMAIN agg \cup {FlowOf(hand[i])}
  BY <1>1 DEF Observed
<1>4. \A j \in Iface \ {i} : hand'[j] = hand[j]
  BY <1>1 DEF WindowInv
<1>5. \A q : Kept(q) => Kept(q)'
  BY <1>2, <1>3, <1>4 DEF Kept
<1>6. \A q \in heard' : Hits(q)' => Kept(q)'
  BY <1>1, <1>2, <1>5 DEF WindowInv
<1>7. QED
  BY <1>1, <1>6 DEF WindowInv

LEMMA CaptureKept ==
  ASSUME WindowInv, CaptureStep, UNCHANGED <<step, found>> PROVE WindowInv'
<1>1. CASE HelperRefuses \/ HelperRuns
  <2>1. /\ stage = "helper" /\ heard' = {} /\ stage' \in {"capture", "done"}
        /\ UNCHANGED <<filter, thread, hand>>
    BY <1>1 DEF HelperRefuses, HelperRuns, WindowInv, threadVars, historyVars
  <2>2. QED
    BY <2>1 DEF WindowInv
<1>2. CASE HelperUnusable
  <2>1. Afresh /\ stage' = "capture" /\ filter' = filter /\ stage # "idle"
    BY <1>2 DEF HelperUnusable
  <2>2. QED
    BY <2>1, AfreshKept DEF WindowInv
<1>3. CASE Collect
  <2>1. /\ stage = "capture" /\ stage' = "done" /\ flows' = agg
        /\ \A i \in Iface : thread[i] = "over"
        /\ UNCHANGED <<filter, thread, hand, heard>>
    BY <1>3 DEF Collect, threadVars, historyVars
  <2>2. \A p : (Hits(p)' <=> Hits(p)) /\ FlowOf(p)' = FlowOf(p)
    BY <2>1 DEF Hits, FlowOf, Outbound
  <2>3. \A i \in Iface : hand[i] = Nobody
    BY <2>1 DEF WindowInv
  <2>4. \A p \in heard : Hits(p) => FlowOf(p) \in DOMAIN agg
    BY <2>1, <2>3, CaptureAssumption DEF WindowInv, Kept
  <2>5. \A p \in heard' : Hits(p)' => FlowOf(p)' \in DOMAIN flows'
    BY <2>1, <2>2, <2>4
  <2>6. QED
    BY <2>1, <2>5 DEF WindowInv
<1>4. ASSUME NEW i \in Iface, ThreadStep(i) PROVE WindowInv'
  <2>1. CASE OpenSocket(i) \/ ReadError(i) \/ ReadTimesOut(i) \/ StampIt(i)
    <3>1. PICK to \in {"open", "read", "stamp", "observe", "over"} :
            /\ thread' = [thread EXCEPT ![i] = to]
            /\ thread[i] \in {"stamp", "observe"} <=> to \in {"stamp", "observe"}
      BY <2>1 DEF OpenSocket, ReadError, ReadTimesOut, StampIt, Step, Back
    <3>2. UNCHANGED <<stage, filter, hand, agg, flows, heard>>
      BY <2>1
         DEF OpenSocket, ReadError, ReadTimesOut, StampIt, sharedVars, outVars, historyVars
    <3>3. QED
      BY <3>1, <3>2, ThreadMoves
  <2>2. QED
    BY <1>4, <2>1, ReadKept, ObserveKept DEF ThreadStep, RunsOn
<1>5. CASE TimePasses
  <2>1. UNCHANGED <<stage, filter, thread, hand, agg, flows, heard>>
    BY <1>5 DEF TimePasses, threadVars, sharedVars, outVars, historyVars
  <2>2. \A p : /\ Hits(p)' <=> Hits(p)
               /\ Kept(p)' <=> Kept(p)
               /\ FlowOf(p)' = FlowOf(p)
    BY <2>1 DEF Hits, Kept, FlowOf, Outbound
  <2>3. QED
    BY <2>1, <2>2 DEF WindowInv
<1>6. QED
  BY <1>1, <1>2, <1>3, <1>4, <1>5 DEF CaptureStep

-----------------------------------------------------------------------------
(* The cycle *)

CycleInv == ScanInv /\ WindowInv

\* Between two scans nothing is steady.
LEMMA RestKept == ASSUME Rest PROVE ScanInv'
<1>1. step' = "idle" /\ steady' = {} /\ alive' = {} /\ failed' = FALSE
  BY DEF Rest, ForgetTable
<1>2. QED
  BY <1>1 DEF ScanInv, SteadyPortsAreFound

LEMMA IdleKept ==
  ASSUME WindowInv, stage = "idle", UNCHANGED captureVars PROVE WindowInv'
<1>1. UNCHANGED <<stage, heard, thread, hand>>
  BY DEF captureVars, threadVars, historyVars
<1>2. QED
  BY <1>1 DEF WindowInv

LEMMA CycleKept == ASSUME CycleInv, [Next]_vars PROVE CycleInv'
<1>1. CASE ScanStep
  <2>1. step # "done"
    BY <1>1
       DEF ScanStep, PortsStep, BeginScan, FindPids, FindNoPids, AddWineserver, ReadSockets,
           EndScan, Exits, Opens, Closes, Churning
  <2>2. stage = "idle"
    BY <2>1 DEF CycleInv, WindowInv
  <2>3. QED
    BY <1>1, <2>2, ScanKept, IdleKept DEF ScanStep, CycleInv
<1>2. CASE StartWindow
  <2>1. /\ stage = "idle" /\ stage' \in {"helper", "capture", "done"}
        /\ step' = "done" /\ filter' = found' /\ heard' = {}
        /\ UNCHANGED <<step, found, failed, steady, thread, hand>> /\ alive' = {}
    BY <1>2
       DEF StartWindow, Begin, ForgetTable, CycleInv, WindowInv, threadVars, historyVars
  <2>2. WindowInv'
    BY <2>1 DEF CycleInv, WindowInv
  <2>3. SteadyPortsAreFound'
    BY <2>1 DEF CycleInv, ScanInv, SteadyPortsAreFound, SteadyPorts
  <2>4. ScanInv'
    BY <2>1, <2>3 DEF CycleInv, ScanInv
  <2>5. QED
    BY <2>2, <2>4 DEF CycleInv
<1>3. CASE SkipWindow
  BY <1>3, RestKept, IdleKept DEF SkipWindow, CycleInv
<1>4. CASE WindowStep
  <2>1. WindowInv'
    BY <1>4, CaptureKept DEF WindowStep, CycleInv, portsVars, scanVars
  <2>2. UNCHANGED <<step, alive, owner, targets, found, failed, steady>>
    BY <1>4 DEF WindowStep, portsVars, tableVars, scanVars
  <2>3. SteadyPortsAreFound'
    BY <2>2 DEF CycleInv, ScanInv, SteadyPortsAreFound, SteadyPorts
  <2>4. ScanInv'
    BY <2>2, <2>3 DEF CycleInv, ScanInv
  <2>5. QED
    BY <2>1, <2>4 DEF CycleInv
<1>5. CASE EndWindow
  <2>1. Afresh /\ stage' = "idle" /\ Rest
    BY <1>5 DEF EndWindow, Release
  <2>2. QED
    BY <2>1, AfreshKept, RestKept DEF CycleInv
<1>6. CASE UNCHANGED vars
  <2>1. UNCHANGED <<step, alive, owner, targets, found, failed, steady>>
    BY <1>6 DEF vars, portsVars, tableVars, scanVars
  <2>2. UNCHANGED <<stage, filter, thread, hand, agg, flows, heard>>
    BY <1>6 DEF vars, captureVars, threadVars, sharedVars, outVars, historyVars
  <2>3. SteadyPortsAreFound'
    BY <2>1 DEF CycleInv, ScanInv, SteadyPortsAreFound, SteadyPorts
  <2>4. ScanInv'
    BY <2>1, <2>3 DEF CycleInv, ScanInv
  <2>5. \A p : /\ Hits(p)' <=> Hits(p)
               /\ Kept(p)' <=> Kept(p)
               /\ FlowOf(p)' = FlowOf(p)
    BY <2>2 DEF Hits, Kept, FlowOf, Outbound
  <2>6. WindowInv'
    BY <2>1, <2>2, <2>5 DEF CycleInv, WindowInv
  <2>7. QED
    BY <2>4, <2>6 DEF CycleInv
<1>7. QED
  BY <1>1, <1>2, <1>3, <1>4, <1>5, <1>6 DEF Next

LEMMA CycleHolds == Spec => []CycleInv
<1>1. Init => CycleInv
  BY ScanStart, WindowStart DEF CycleInv
<1>2. QED
  BY <1>1, CycleKept, PTL DEF Spec

\* What a steady port of the game received is in a flow of the game.
THEOREM GameTrafficIsInFlows == Spec => []GameTrafficIsRanked
<1>1. CycleInv => GameTrafficIsRanked
  <2>1. SUFFICES ASSUME CycleInv PROVE GameTrafficIsRanked
    OBVIOUS
  <2>2. SteadyPortsAreFound /\ WindowInv
    BY <2>1 DEF CycleInv, ScanInv
  <2>3. ASSUME stage = "done", ~failed, NEW p \in heard,
               {PortOf(p.from), PortOf(p.to)} \cap SteadyPorts # {}
        PROVE  FlowOf(p) \in DOMAIN flows
    <3>1. step = "done" /\ filter = found
      BY <2>2, <2>3 DEF WindowInv
    <3>2. SteadyPorts \subseteq found
      BY <2>2, <2>3, <3>1 DEF SteadyPortsAreFound
    <3>3. Hits(p)
      BY <2>3, <3>1, <3>2 DEF Hits
    <3>4. QED
      BY <2>2, <2>3, <3>3 DEF WindowInv
  <2>4. QED
    BY <2>2, <2>3 DEF GameTrafficIsRanked
<1>2. QED
  BY <1>1, CycleHolds, PTL

-----------------------------------------------------------------------------
(* Types *)

\* The raw count is of all that was read, where there is one.
RawInv == raw = IF Windows THEN reads ELSE 0

\* The wineserver is looked for from a process of the game.
TypeInv ==
  /\ TypeOK
  /\ step = "wineserver" => first \in Pid
  /\ RawInv

LEMMA ForgottenTypes ==
  ASSUME ForgetTable
  PROVE  /\ kind' \in [Pid -> Kind] /\ parent' \in [Pid -> Pid \cup {0}]
         /\ alive' \subseteq Pid /\ owner' \in [Port -> SUBSET Pid]
         /\ churn' \in 0..MaxChurn /\ pids' \subseteq Pid
         /\ first' \in Pid \cup {Nil} /\ targets' \subseteq Pid
BY PortsAssumption DEF ForgetTable, NoKind, NoParent, NoOwner, Kind

LEMMA PortsTypesKept ==
  ASSUME PortsTypeOK, step = "wineserver" => first \in Pid, PortsStep
  PROVE  PortsTypeOK' /\ (step' = "wineserver" => first' \in Pid)
<1>1. CASE BeginScan
  BY <1>1, PortsAssumption DEF BeginScan, PortsTypeOK, scanVars
<1>2. CASE FindPids
  <2>1. Games \subseteq Pid
    BY DEF Games, PortsTypeOK
  <2>2. QED
    BY <1>2, <2>1 DEF FindPids, PortsTypeOK, tableVars
<1>3. CASE FindNoPids
  BY <1>3, PortsAssumption DEF FindNoPids, Count, PortsTypeOK, tableVars, scanVars
<1>4. CASE AddWineserver
  <2>1. Resolve(first) \in Pid \cup {Nil}
    BY <1>4, ResolveType DEF AddWineserver, Wineservers, PortsTypeOK
  <2>2. QED
    BY <1>4, <2>1 DEF AddWineserver, PortsTypeOK, tableVars
<1>5. CASE ReadSockets
  <2>1. found' \subseteq Port
    BY <1>5 DEF ReadSockets, Look, OwnedBy, PortsTypeOK
  <2>2. QED
    BY <1>5, <2>1 DEF ReadSockets, PortsTypeOK, tableVars
<1>6. CASE EndScan
  <2>1. noUdp' \in 0..MaxCycles
    BY <1>6, PortsAssumption DEF EndScan, Count, PortsTypeOK
  <2>2. QED
    BY <1>6, <2>1 DEF EndScan, PortsTypeOK, tableVars, scanVars
<1>7. ASSUME NEW p \in Pid, Exits(p) \/ \E q \in Port : Opens(p, q) \/ Closes(p, q)
      PROVE  PortsTypeOK' /\ (step' = "wineserver" => first' \in Pid)
  <2>1. /\ steady' \subseteq steady /\ churn' \in 0..MaxChurn
        /\ UNCHANGED <<step, kind, pids, first, targets, found, failed, noUdp>>
    BY <1>7, PortsAssumption DEF Exits, Opens, Closes, Churning, Hold, PortsTypeOK, scanVars
  <2>2. /\ parent' \in [Pid -> Pid \cup {0}] /\ alive' \subseteq Pid
        /\ owner' \in [Port -> SUBSET Pid]
    BY <1>7 DEF Exits, Opens, Closes, PortsTypeOK
  <2>3. QED
    BY <2>1, <2>2 DEF PortsTypeOK
<1>8. QED
  BY <1>1, <1>2, <1>3, <1>4, <1>5, <1>6, <1>7 DEF PortsStep

LEMMA AfreshTypes ==
  ASSUME Afresh
  PROVE  /\ now' \in 0..(WindowTicks + 1)
         /\ thread' \in [Iface -> {"open", "read", "stamp", "observe", "over"}]
         /\ hand' \in [Iface -> Packet \cup {Nobody}]
         /\ stamp' \in [Iface -> 0..(WindowTicks + 1)]
         /\ opened' \subseteq Iface
         /\ DOMAIN agg' \subseteq Flow /\ \A f \in DOMAIN agg' : agg'[f] \in Stat
         /\ raw' \in 0..MaxReads /\ reads' \in 0..MaxReads /\ wanted' \in 0..reads'
         /\ heard' \subseteq Packet /\ gone' \subseteq Iface
         /\ raw' = 0 /\ reads' = 0
BY CaptureAssumption
   DEF Afresh, NewThreads, NoPackets, NoStamps, Nothing

LEMMA FlowType == ASSUME NEW p \in Packet PROVE FlowOf(p) \in Flow
BY DEF FlowOf, Flow, Ports, Peers

PacketsOf(s) == s.inbound + s.outbound

\* What observing a packet makes of the flows.
LEMMA ObservedIs ==
  ASSUME NEW a, \A f \in DOMAIN a : a[f] \in Stat, NEW p \in Packet, NEW t \in Nat
  PROVE  LET b == Observed(a, p, t)
             g == FlowOf(p)
             n == IF g \in DOMAIN a THEN PacketsOf(a[g]) ELSE 0
         IN /\ DOMAIN b = DOMAIN a \cup {g}
            /\ \A f \in DOMAIN b : b[f] \in Stat
            /\ \A f \in DOMAIN a \ {g} : b[f] = a[f]
            /\ PacketsOf(b[g]) = n + 1
<1> DEFINE g == FlowOf(p)
           old == IF g \in DOMAIN a THEN a[g]
                  ELSE [inbound |-> 0, outbound |-> 0, first |-> t, last |-> t]
           new == [old EXCEPT !.inbound = IF Outbound(p) THEN @ ELSE @ + 1,
                              !.outbound = IF Outbound(p) THEN @ + 1 ELSE @,
                              !.last = t]
           b == [f \in DOMAIN a \cup {g} |-> IF f = g THEN new ELSE a[f]]
<1>1. Observed(a, p, t) = b
  BY DEF Observed
<1>2. old \in Stat
  BY DEF Stat
<1>3. new \in Stat /\ new.inbound + new.outbound = old.inbound + old.outbound + 1
  <2>1. PICK n \in Nat, m \in Nat, x \in Nat, y \in Nat :
          old = [inbound |-> n, outbound |-> m, first |-> x, last |-> y]
    <3> HIDE DEF old
    <3>1. QED
      BY <1>2 DEF Stat
  <2>2. new = [inbound |-> IF Outbound(p) THEN n ELSE n + 1,
               outbound |-> IF Outbound(p) THEN m + 1 ELSE m, first |-> x, last |-> t]
    <3> DEFINE r == [inbound |-> n, outbound |-> m, first |-> x, last |-> y]
               in == [r EXCEPT !.inbound = IF Outbound(p) THEN n ELSE n + 1]
               out == [in EXCEPT !.outbound = IF Outbound(p) THEN m + 1 ELSE m]
    <3> HIDE DEF old
    <3>1. in = [inbound |-> IF Outbound(p) THEN n ELSE n + 1, outbound |-> m, first |-> x,
                last |-> y]
      OBVIOUS
    <3>2. out = [inbound |-> IF Outbound(p) THEN n ELSE n + 1,
                 outbound |-> IF Outbound(p) THEN m + 1 ELSE m, first |-> x, last |-> y]
      <4> HIDE DEF in
      <4>1. QED
        BY <3>1
    <3>3. new = [out EXCEPT !.last = t]
      BY <2>1
    <3>4. QED
      <4> HIDE DEF out, new
      <4>1. QED
        BY <3>2, <3>3
  <2>3. QED
    <3> HIDE DEF old, new
    <3>1. QED
      BY <2>1, <2>2 DEF Stat
<1>4. PacketsOf(old) = IF g \in DOMAIN a THEN PacketsOf(a[g]) ELSE 0
  BY DEF PacketsOf
<1>5. PacketsOf(new) = PacketsOf(old) + 1
  <2> HIDE DEF old, new
  <2>1. QED
    BY <1>3 DEF PacketsOf
<1>6. QED
  <2> HIDE DEF old, new, g
  <2>1. /\ DOMAIN b = DOMAIN a \cup {g} /\ b[g] = new
        /\ \A f \in DOMAIN a \ {g} : b[f] = a[f]
    OBVIOUS
  <2> HIDE DEF b
  <2>2. QED
    BY <1>1, <1>3, <1>4, <1>5, <2>1 DEF g

LEMMA ThreadTypesKept ==
  ASSUME CaptureTypeOK, RawInv, WindowInv, os' = os, NEW i \in Iface, ThreadStep(i)
  PROVE  CaptureTypeOK' /\ RawInv'
<1>1. CASE OpenSocket(i)
  BY <1>1 DEF OpenSocket, Step, Back, CaptureTypeOK, RawInv, Windows, sharedVars, outVars,
              historyVars
<1>2. CASE ReadPacket(i)
  <2>1. PICK p \in Packet :
          /\ IF Hits(p)
               THEN Step(i, "read", "stamp") /\ hand' = [hand EXCEPT ![i] = p]
               ELSE Step(i, "read", Back) /\ hand' = hand
          /\ raw' = raw + Counts(p) /\ reads' = reads + 1
          /\ wanted' = IF Hits(p) THEN wanted + 1 ELSE wanted
          /\ heard' = heard \cup {p}
    BY <1>2 DEF ReadPacket
  <2>2. /\ hand' \in [Iface -> Packet \cup {Nobody}] /\ stage' = stage
        /\ thread' \in [Iface -> {"open", "read", "stamp", "observe", "over"}]
    BY <1>2, <2>1 DEF ReadPacket, Step, Back, CaptureTypeOK
  <2>3. reads' \in 0..MaxReads /\ wanted' \in 0..reads' /\ RawInv' /\ raw' \in 0..MaxReads
    <3>1. reads \in 0..MaxReads /\ wanted \in 0..reads /\ reads < MaxReads /\ MaxReads \in Nat
      BY <1>2, CaptureAssumption DEF ReadPacket, CaptureTypeOK
    <3>2. reads' \in 0..MaxReads /\ wanted' \in 0..reads'
      BY <2>1, <3>1
    <3>3. RawInv'
      BY <2>1, <3>1 DEF RawInv, Counts, Windows
    <3>4. QED
      BY <3>1, <3>2, <3>3 DEF RawInv
  <2>4. UNCHANGED <<helper, now, stamp, opened, agg, flows, rawCount, gone>> /\ heard' \subseteq Packet
    BY <1>2, <2>1 DEF ReadPacket, CaptureTypeOK, outVars
  <2>5. QED
    BY <2>2, <2>3, <2>4 DEF CaptureTypeOK
<1>3. CASE ReadError(i)
  <2>1. thread' \in [Iface -> {"open", "read", "stamp", "observe", "over"}] /\ stage' = stage
    BY <1>3 DEF ReadError, Step, Back, CaptureTypeOK
  <2>2. gone' \subseteq Iface
    BY <1>3 DEF ReadError, CaptureTypeOK
  <2>3. UNCHANGED <<helper, now, hand, stamp, opened, agg, raw, flows, rawCount, reads, wanted, heard>>
    BY <1>3 DEF ReadError, sharedVars, outVars
  <2>4. QED
    BY <2>1, <2>2, <2>3 DEF CaptureTypeOK, RawInv, Windows
<1>4. CASE ReadTimesOut(i)
  BY <1>4 DEF ReadTimesOut, Step, Back, CaptureTypeOK, RawInv, Windows, sharedVars, outVars,
              historyVars
<1>5. CASE StampIt(i)
  BY <1>5 DEF StampIt, Step, CaptureTypeOK, RawInv, Windows, sharedVars, outVars, historyVars
<1>6. CASE ObserveIt(i)
  <2>1. /\ thread[i] = "observe" /\ thread' = [thread EXCEPT ![i] = Back] /\ stage' = stage
        /\ Back \in {"read", "over"}
    BY <1>6 DEF ObserveIt, Step, Back
  <2>2. hand[i] \in Packet /\ stamp[i] \in Nat
    BY <2>1, CaptureAssumption DEF WindowInv, CaptureTypeOK
  <2>3. agg' = Observed(agg, hand[i], stamp[i])
    BY <1>6 DEF ObserveIt
  <2>4. DOMAIN agg' \subseteq Flow /\ \A f \in DOMAIN agg' : agg'[f] \in Stat
    <3>1. DOMAIN agg \subseteq Flow /\ \A f \in DOMAIN agg : agg[f] \in Stat
      BY DEF CaptureTypeOK
    <3>2. /\ DOMAIN agg' = DOMAIN agg \cup {FlowOf(hand[i])}
          /\ \A f \in DOMAIN agg' : agg'[f] \in Stat
      BY <2>2, <2>3, <3>1, ObservedIs
    <3>3. QED
      BY <2>2, <3>1, <3>2, FlowType
  <2>5. /\ hand' \in [Iface -> Packet \cup {Nobody}]
        /\ stamp' \in [Iface -> 0..(WindowTicks + 1)]
    BY <1>6, CaptureAssumption DEF ObserveIt, CaptureTypeOK
  <2>6. UNCHANGED <<helper, now, opened, raw, flows, rawCount, reads, wanted, heard, gone>>
    BY <1>6 DEF ObserveIt, outVars, historyVars
  <2>7. QED
    BY <2>1, <2>4, <2>5, <2>6 DEF CaptureTypeOK, RawInv, Windows
<1>7. QED
  BY <1>1, <1>2, <1>3, <1>4, <1>5, <1>6 DEF ThreadStep, RunsOn

LEMMA CaptureTypesKept ==
  ASSUME CaptureTypeOK, RawInv, WindowInv, os' = os, CaptureStep
  PROVE  CaptureTypeOK' /\ RawInv'
<1>1. CASE HelperRefuses \/ HelperRuns
  BY <1>1 DEF HelperRefuses, HelperRuns, CaptureTypeOK, RawInv, Windows, threadVars, sharedVars,
              outVars, historyVars
<1>2. CASE HelperUnusable
  <2>1. Afresh /\ stage' = "capture" /\ helper' = FALSE /\ UNCHANGED <<flows, rawCount>>
    BY <1>2 DEF HelperUnusable, outVars
  <2>2. QED
    BY <2>1, AfreshTypes DEF CaptureTypeOK, RawInv
<1>3. CASE Collect
  BY <1>3 DEF Collect, CaptureTypeOK, RawInv, Windows, threadVars, sharedVars, historyVars
<1>4. CASE \E i \in Iface : ThreadStep(i)
  BY <1>4, ThreadTypesKept
<1>5. CASE TimePasses
  BY <1>5, CaptureAssumption
     DEF TimePasses, CaptureTypeOK, RawInv, Windows, threadVars, sharedVars, outVars, historyVars
<1>6. QED
  BY <1>1, <1>2, <1>3, <1>4, <1>5 DEF CaptureStep

LEMMA TypesStart == ASSUME Init PROVE TypeInv
<1>1. PortsTypeOK
  <2>1. /\ kind \in [Pid -> Kind] /\ parent \in [Pid -> Pid \cup {0}]
        /\ owner \in [Port -> SUBSET Pid]
    BY DEF Init, PortsInit, NothingScanned, NoKind, NoParent, NoOwner, Kind
  <2>2. /\ step = "idle" /\ noUdp = 0 /\ churn = 0 /\ first = Nil /\ failed = FALSE
        /\ alive = {} /\ pids = {} /\ targets = {} /\ found = {} /\ steady = {}
    BY DEF Init, PortsInit, NothingScanned
  <2>3. 0 \in 0..MaxChurn /\ 0 \in 0..MaxCycles
    BY PortsAssumption
  <2>4. QED
    BY <2>1, <2>2, <2>3 DEF PortsTypeOK
<1>2. CaptureTypeOK /\ raw = 0 /\ reads = 0
  <2>1. /\ thread \in [Iface -> {"open", "read", "stamp", "observe", "over"}]
        /\ hand \in [Iface -> Packet \cup {Nobody}]
        /\ stamp \in [Iface -> 0..(WindowTicks + 1)]
    BY CaptureAssumption DEF Init, CaptureInit, NewThreads, NoPackets, NoStamps
  <2>2. /\ stage = "idle" /\ helper = FALSE /\ now = 0 /\ opened = {} /\ raw = 0
        /\ DOMAIN agg = {} /\ DOMAIN flows = {} /\ rawCount = NoCount
        /\ reads = 0 /\ wanted = 0 /\ heard = {} /\ gone = {}
    BY DEF Init, CaptureInit, Nothing
  <2>3. now \in 0..(WindowTicks + 1) /\ raw \in 0..MaxReads /\ reads \in 0..MaxReads
        /\ wanted \in 0..reads
    BY <2>2, CaptureAssumption
  <2>4. (\A f \in DOMAIN agg : agg[f] \in Stat) /\ \A f \in DOMAIN flows : flows[f] \in Stat
    BY <2>2
  <2>5. QED
    BY <2>1, <2>2, <2>3, <2>4 DEF CaptureTypeOK
<1>3. step = "idle" /\ os \in Systems /\ filter = {}
  BY DEF Init, PortsInit, CaptureInit
<1>4. QED
  BY <1>1, <1>2, <1>3 DEF TypeInv, TypeOK, RawInv

LEMMA PortsUnmoved == ASSUME PortsTypeOK, UNCHANGED portsVars PROVE PortsTypeOK'
BY DEF PortsTypeOK, portsVars, tableVars, scanVars

LEMMA CaptureUnmoved == ASSUME CaptureTypeOK, UNCHANGED captureVars PROVE CaptureTypeOK'
BY DEF CaptureTypeOK, captureVars, threadVars, sharedVars, outVars, historyVars

LEMMA TypesKept == ASSUME TypeInv, CycleInv, [Next]_vars PROVE TypeInv'
<1> USE DEF TypeInv, TypeOK, CycleInv, RawInv
<1>1. CASE ScanStep
  <2>1. UNCHANGED <<os, filter, raw, reads>> /\ UNCHANGED captureVars /\ PortsStep
    BY <1>1 DEF ScanStep, captureVars, sharedVars, historyVars
  <2>2. QED
    BY <2>1, PortsTypesKept, CaptureUnmoved DEF Windows
<1>2. CASE StartWindow
  <2>1. PortsTypeOK' /\ step' = "done"
    <3>1. ForgetTable /\ step = "done" /\ UNCHANGED <<step, found, failed, steady, noUdp>>
      BY <1>2 DEF StartWindow
    <3>2. QED
      BY <3>1, ForgottenTypes DEF PortsTypeOK
  <2>2. /\ stage' \in {"capture", "done", "helper"} /\ filter' \subseteq Port
        /\ UNCHANGED <<os, helper, now, threadVars, sharedVars, outVars, historyVars>>
    BY <1>2 DEF StartWindow, Begin, PortsTypeOK
  <2>3. CaptureTypeOK' /\ UNCHANGED <<raw, reads>>
    BY <2>2 DEF CaptureTypeOK, threadVars, sharedVars, outVars, historyVars
  <2>4. QED
    BY <2>1, <2>2, <2>3 DEF Windows
<1>3. ASSUME Rest PROVE PortsTypeOK' /\ step' = "idle" /\ os' = os
  <2>1. /\ ForgetTable /\ step' = "idle" /\ noUdp' = noUdp /\ os' = os
        /\ found' = {} /\ failed' = FALSE /\ steady' = {}
    BY <1>3 DEF Rest
  <2>2. QED
    BY <2>1, ForgottenTypes DEF PortsTypeOK
<1>4. CASE SkipWindow
  <2>1. Rest /\ UNCHANGED captureVars /\ UNCHANGED <<filter, raw, reads>>
    BY <1>4 DEF SkipWindow, captureVars, sharedVars, historyVars
  <2>2. QED
    BY <1>3, <2>1, CaptureUnmoved DEF Windows
<1>5. CASE WindowStep
  <2>1. CaptureStep /\ os' = os /\ UNCHANGED portsVars
    BY <1>5 DEF WindowStep
  <2>2. filter' = filter
    BY <2>1 DEF CaptureStep, HelperRefuses, HelperRuns, HelperUnusable, Collect, TimePasses,
                ThreadStep, OpenSocket, ReadPacket, ReadError, RunsOn, ReadTimesOut, StampIt, ObserveIt
  <2>3. step' = step /\ first' = first
    BY <2>1 DEF portsVars, scanVars
  <2>4. QED
    BY <2>1, <2>2, <2>3, CaptureTypesKept, PortsUnmoved
<1>6. CASE EndWindow
  <2>1. /\ Rest /\ Afresh /\ stage' = "idle" /\ helper' = FALSE /\ filter' = {}
        /\ flows' = Nothing /\ rawCount' = NoCount
    BY <1>6 DEF EndWindow, Release
  <2>2. CaptureTypeOK' /\ raw' = 0 /\ reads' = 0
    BY <2>1, AfreshTypes DEF CaptureTypeOK, Nothing
  <2>3. QED
    BY <1>3, <2>1, <2>2
<1>7. CASE UNCHANGED vars
  <2>1. UNCHANGED portsVars /\ UNCHANGED captureVars
        /\ UNCHANGED <<os, filter, raw, reads, step, first>>
    BY <1>7 DEF vars, portsVars, scanVars, captureVars, sharedVars, historyVars
  <2>2. QED
    BY <2>1, PortsUnmoved, CaptureUnmoved DEF Windows
<1>8. QED
  BY <1>1, <1>2, <1>4, <1>5, <1>6, <1>7 DEF Next

LEMMA TypesHold == Spec => []TypeInv
<1>1. QED
  BY TypesStart, TypesKept, CycleHolds, PTL DEF Spec

\* Every variable of a cycle has its type: among others, the wineserver resolved
\* is a process, and the counts of a flow are numbers.
THEOREM CycleTypes == Spec => []TypeOK
<1>1. TypeInv => TypeOK
  BY DEF TypeInv
<1>2. QED
  BY <1>1, TypesHold, PTL

\* Whatever the process tables are, and whatever exits between the scans, the
\* wineserver chosen is a sibling of the game, or none shares more of its ancestry.
THEOREM ClosestWineserver == Spec => []WineserverIsTheClosest
<1>1. TypeInv => WineserverIsTheClosest
  BY ClosestIsChosen DEF TypeInv, TypeOK, WineserverIsTheClosest
<1>2. QED
  BY <1>1, TypesHold, PTL

-----------------------------------------------------------------------------
(* The packets counted *)

\* One element for each packet counted in the flows T of a.
Units(a, T) == {u \in T \X Nat : u[2] < PacketsOf(a[u[1]])}

Flows(a) == IsFiniteSet(DOMAIN a) /\ \A f \in DOMAIN a : a[f] \in Stat

LEMMA PacketsType == ASSUME NEW s \in Stat PROVE PacketsOf(s) \in Nat
BY DEF PacketsOf, Stat

\* A flow has as many units as packets.
LEMMA UnitsOfFlow ==
  ASSUME NEW a, Flows(a), NEW f \in DOMAIN a
  PROVE  IsFiniteSet(Units(a, {f})) /\ Cardinality(Units(a, {f})) = PacketsOf(a[f])
<1> DEFINE n == PacketsOf(a[f])
           I == 0..(n - 1)
<1>1. n \in Nat
  BY PacketsType DEF Flows
<1> HIDE DEF n
<1>2. Units(a, {f}) = {f} \X I
  BY <1>1 DEF Units, n
<1>3. IsFiniteSet(I) /\ Cardinality(I) = n
  BY <1>1, FS_Interval
<1>4. IsFiniteSet({f}) /\ Cardinality({f}) = 1
  BY FS_Singleton
<1>5. IsFiniteSet({f} \X I) /\ Cardinality({f} \X I) = 1 * n
  <2> HIDE DEF I
  <2>1. QED
    BY <1>3, <1>4, FS_Product
<1>6. 1 * n = n
  BY <1>1
<1>7. QED
  <2> HIDE DEF I
  <2>1. QED
    BY <1>2, <1>5, <1>6 DEF n

LEMMA UnitsSplit ==
  ASSUME NEW a, Flows(a), NEW T \in SUBSET DOMAIN a, NEW f \in T,
         IsFiniteSet(Units(a, T \ {f}))
  PROVE  /\ IsFiniteSet(Units(a, T))
         /\ Cardinality(Units(a, T)) = PacketsOf(a[f]) + Cardinality(Units(a, T \ {f}))
<1> DEFINE U == Units(a, {f})
           V == Units(a, T \ {f})
<1>1. Units(a, T) = U \cup V /\ U \cap V = {}
  BY DEF Units
<1>2. IsFiniteSet(U) /\ Cardinality(U) = PacketsOf(a[f]) /\ IsFiniteSet(V)
  BY UnitsOfFlow
<1>3. Cardinality({}) = 0 /\ Cardinality(U) \in Nat /\ Cardinality(V) \in Nat
  BY <1>2, FS_EmptySet, FS_CardinalityType
<1>4. /\ IsFiniteSet(U \cup V)
      /\ Cardinality(U \cup V) = Cardinality(U) + Cardinality(V) - Cardinality(U \cap V)
  <2> HIDE DEF U, V
  <2>1. QED
    BY <1>2, FS_Union
<1>5. Cardinality(U \cap V) = 0
  BY <1>1, <1>3
<1>6. QED
  <2> HIDE DEF U, V
  <2>1. Cardinality(U \cup V) = Cardinality(U) + Cardinality(V)
    BY <1>3, <1>4, <1>5
  <2>2. QED
    BY <1>1, <1>2, <1>4, <2>1 DEF V

LEMMA UnitsAreFinite ==
  ASSUME NEW a, Flows(a), NEW T \in SUBSET DOMAIN a PROVE IsFiniteSet(Units(a, T))
<1> DEFINE D == DOMAIN a
           G == {S \in SUBSET D : IsFiniteSet(Units(a, S))}
<1>1. {} \in G
  <2>1. Units(a, {}) = {}
    BY DEF Units
  <2>2. QED
    BY <2>1, FS_EmptySet
<1>2. \A S \in SUBSET D : S # {} => \E f \in S : S \ {f} \in G => S \in G
  <2>1. SUFFICES ASSUME NEW S \in SUBSET D, NEW f \in S, S \ {f} \in G PROVE S \in G
    OBVIOUS
  <2>2. QED
    BY <2>1, UnitsSplit
<1>3. IsFiniteSet(D)
  BY DEF Flows
<1>4. SUBSET D \subseteq G
  <2> HIDE DEF D, G
  <2>1. QED
    BY <1>1, <1>2, <1>3, SubsetInduction
<1>5. QED
  BY <1>4

\* The fold over the flows counts the packets.
LEMMA TotalCounts ==
  ASSUME NEW a, Flows(a) PROVE Total(a) = Cardinality(Units(a, DOMAIN a))
<1> DEFINE D == DOMAIN a
           pick(s) == CHOOSE f \in s : TRUE
           Sums(t) == t = [s \in SUBSET D |->
                             IF s = {} THEN 0
                             ELSE a[pick(s)].inbound + a[pick(s)].outbound + t[s \ {pick(s)}]]
           sum == CHOOSE t : Sums(t)
           count == [s \in SUBSET D |-> Cardinality(Units(a, s))]
<1>1. Total(a) = sum[D]
  BY DEF Total, FoldFunction, FoldFunctionOnSet, MapThenFoldSet
<1>2. Cardinality(Units(a, {})) = 0
  <2>1. Units(a, {}) = {}
    BY DEF Units
  <2>2. QED
    BY <2>1, FS_EmptySet
<1>3. ASSUME NEW s \in SUBSET D, s # {}
      PROVE  /\ pick(s) \in s
             /\ Cardinality(Units(a, s)) = PacketsOf(a[pick(s)])
                                             + Cardinality(Units(a, s \ {pick(s)}))
  <2>1. pick(s) \in s
    BY <1>3
  <2> HIDE DEF pick
  <2>2. IsFiniteSet(Units(a, s \ {pick(s)}))
    BY UnitsAreFinite
  <2>3. QED
    BY <2>1, <2>2, UnitsSplit
<1>4. Sums(count)
  <2>1. ASSUME NEW s \in SUBSET D, s # {}
        PROVE  count[s] = a[pick(s)].inbound + a[pick(s)].outbound + count[s \ {pick(s)}]
    <3> HIDE DEF pick
    <3>1. QED
      BY <1>3, <2>1 DEF PacketsOf
  <2>2. count[{}] = 0
    BY <1>2
  <2> HIDE DEF pick
  <2>3. \A s \in SUBSET D :
          count[s] = IF s = {} THEN 0
                     ELSE a[pick(s)].inbound + a[pick(s)].outbound + count[s \ {pick(s)}]
    <3> HIDE DEF count
    <3>1. QED
      BY <2>1, <2>2
  <2>4. count = [s \in SUBSET D |-> count[s]]
    OBVIOUS
  <2>5. QED
    <3> HIDE DEF count
    <3>1. QED
      BY <2>3, <2>4
<1>5. Sums(sum)
  <2> HIDE DEF Sums
  <2>1. QED
    BY <1>4
<1>6. \A s \in SUBSET D :
        sum[s] = IF s = {} THEN 0
                 ELSE a[pick(s)].inbound + a[pick(s)].outbound + sum[s \ {pick(s)}]
  <2> HIDE DEF sum, pick
  <2>1. QED
    BY <1>5
<1> DEFINE G == {s \in SUBSET D : sum[s] = Cardinality(Units(a, s))}
<1>7. {} \in G
  <2> HIDE DEF sum, pick
  <2>1. QED
    BY <1>2, <1>6
<1>8. \A s \in SUBSET D : s # {} => \E f \in s : s \ {f} \in G => s \in G
  <2>1. SUFFICES ASSUME NEW s \in SUBSET D, s # {}, s \ {pick(s)} \in G PROVE s \in G
    BY <1>3
  <2> HIDE DEF sum, pick
  <2>2. QED
    BY <1>3, <1>6, <2>1 DEF PacketsOf
<1>9. SUBSET D \subseteq G
  <2>1. IsFiniteSet(D)
    BY DEF Flows
  <2> HIDE DEF D, G
  <2>2. QED
    BY <1>7, <1>8, <2>1, SubsetInduction
<1>10. D \in G
  BY <1>9
<1>11. QED
  <2> HIDE DEF sum, pick
  <2>1. QED
    BY <1>1, <1>10

\* An observed packet is one unit more.
LEMMA TotalObserved ==
  ASSUME NEW a, Flows(a), NEW p \in Packet, NEW t \in Nat
  PROVE  Flows(Observed(a, p, t)) /\ Total(Observed(a, p, t)) = Total(a) + 1
<1> DEFINE b == Observed(a, p, t)
           g == FlowOf(p)
           n == IF g \in DOMAIN a THEN PacketsOf(a[g]) ELSE 0
           U == Units(a, DOMAIN a)
<1>1. /\ DOMAIN b = DOMAIN a \cup {g}
      /\ \A f \in DOMAIN b : b[f] \in Stat
      /\ \A f \in DOMAIN a \ {g} : b[f] = a[f]
      /\ PacketsOf(b[g]) = n + 1
  <2>1. \A f \in DOMAIN a : a[f] \in Stat
    BY DEF Flows
  <2>2. QED
    BY <2>1, ObservedIs
<1>2. n \in Nat
  BY PacketsType DEF Flows
<1>3. Flows(b)
  <2>1. IsFiniteSet(DOMAIN a \cup {g})
    BY FS_AddElement DEF Flows
  <2> HIDE DEF b
  <2>2. QED
    BY <1>1, <2>1 DEF Flows
<1> HIDE DEF b
<1>4. Units(b, DOMAIN b) = U \cup {<<g, n>>}
  <2> HIDE DEF n
  <2>1. ASSUME NEW f \in DOMAIN b, NEW k \in Nat
        PROVE  k < PacketsOf(b[f]) <=> (f \in DOMAIN a /\ k < PacketsOf(a[f])) \/ (f = g /\ k = n)
    <3>1. CASE f # g
      BY <1>1, <3>1
    <3>2. CASE f = g /\ g \in DOMAIN a
      <4>1. n = PacketsOf(a[g])
        BY <3>2 DEF n
      <4>2. QED
        BY <1>1, <1>2, <3>2, <4>1
    <3>3. CASE f = g /\ g \notin DOMAIN a
      <4>1. n = 0
        BY <3>3 DEF n
      <4>2. QED
        BY <1>1, <3>3, <4>1
    <3>4. QED
      BY <3>1, <3>2, <3>3
  <2>2. DOMAIN a \subseteq DOMAIN b /\ g \in DOMAIN b
    BY <1>1
  <2>3. QED
    BY <1>2, <2>1, <2>2 DEF Units
<1>5. <<g, n>> \notin U
  BY <1>2 DEF Units
<1>6. IsFiniteSet(U)
  BY UnitsAreFinite
<1>7. Cardinality(U \cup {<<g, n>>}) = Cardinality(U) + 1
  <2> HIDE DEF U, g, n
  <2>1. QED
    BY <1>5, <1>6, FS_AddElement
<1>8. Total(a) = Cardinality(U) /\ Total(b) = Cardinality(Units(b, DOMAIN b))
  BY <1>3, TotalCounts
<1>9. QED
  <2> HIDE DEF U, g, n
  <2>1. QED
    BY <1>3, <1>4, <1>7, <1>8 DEF b

LEMMA NothingCounts == Flows(Nothing) /\ Total(Nothing) = 0
<1>1. DOMAIN Nothing = {}
  BY DEF Nothing
<1>2. Flows(Nothing)
  BY <1>1, FS_EmptySet DEF Flows
<1>3. Units(Nothing, {}) = {}
  BY DEF Units
<1>4. QED
  BY <1>1, <1>2, <1>3, TotalCounts, FS_EmptySet

-----------------------------------------------------------------------------
(* Nothing is lost *)

\* Only a capture that began has flows, packets or sockets.
LossInv ==
  /\ Flows(agg)
  /\ stage = "helper" => Linux
  /\ stage \in {"idle", "helper"} =>
       agg = Nothing /\ wanted = 0 /\ opened = {} /\ hand = NoPackets
  /\ stage # "done" => flows = Nothing
  /\ \A i \in Iface : thread[i] = "open" => i \notin opened
  /\ NothingIsLost

LEMMA EmptyHands == ASSUME hand = NoPackets PROVE Cardinality(InHand) = 0
<1>1. InHand = {}
  BY DEF InHand, NoPackets
<1>2. QED
  BY <1>1, FS_EmptySet

LEMMA LossAfresh ==
  ASSUME Afresh, stage' \in {"idle", "capture"}, flows' = Nothing PROVE LossInv'
<1>1. /\ agg' = Nothing /\ wanted' = 0 /\ opened' = {} /\ hand' = NoPackets
  BY DEF Afresh
<1>2. Flows(agg)' /\ Total(agg)' = 0
  <2>1. Flows(agg') /\ Total(agg') = 0
    BY <1>1, NothingCounts
  <2>2. QED
    BY <2>1 DEF Flows
<1>3. Cardinality(InHand)' = 0
  <2>1. InHand' = {}
    BY <1>1 DEF InHand, NoPackets
  <2>2. QED
    BY <2>1, FS_EmptySet
<1>4. NothingIsLost'
  BY <1>1, <1>2, <1>3 DEF NothingIsLost
<1>5. QED
  BY <1>1, <1>2, <1>4 DEF LossInv

LEMMA LossStart == ASSUME Init PROVE LossInv
<1>1. /\ stage = "idle" /\ agg = Nothing /\ wanted = 0 /\ opened = {} /\ hand = NoPackets
      /\ flows = Nothing
  BY DEF Init, CaptureInit
<1>2. NothingIsLost
  BY <1>1 DEF NothingIsLost
<1>3. QED
  BY <1>1, <1>2, NothingCounts DEF LossInv

\* A step that counts nothing and takes no packet up.
LEMMA LossUnmoved ==
  ASSUME LossInv, UNCHANGED <<os, stage, agg, flows, rawCount, hand, reads, wanted>>,
         \A i \in Iface : thread'[i] = "open" => i \notin opened',
         \A i \in opened' : Windows /\ thread'[i] = "over" /\ now' < WindowTicks => i \in gone',
         stage = "capture" \/ opened' = opened
  PROVE  LossInv'
<1>1. /\ InHand' = InHand /\ Total(agg)' = Total(agg) /\ Total(flows)' = Total(flows)
      /\ (Windows' <=> Windows) /\ (Linux' <=> Linux) /\ (Flows(agg)' <=> Flows(agg))
  BY DEF InHand, Windows, Linux, Flows
<1>2. NothingIsLost'
  BY <1>1 DEF LossInv, NothingIsLost
<1>3. QED
  BY <1>1, <1>2 DEF LossInv

LEMMA LossRead ==
  ASSUME LossInv, TypeInv, WindowInv, os' = os, NEW i \in Iface, ReadPacket(i) PROVE LossInv'
<1>1. PICK p \in Packet :
        /\ IF Hits(p)
             THEN Step(i, "read", "stamp") /\ hand' = [hand EXCEPT ![i] = p]
             ELSE Step(i, "read", Back) /\ hand' = hand
        /\ wanted' = IF Hits(p) THEN wanted + 1 ELSE wanted
  BY DEF ReadPacket
<1>2. /\ stage = "capture" /\ thread[i] = "read" /\ hand[i] = Nobody
      /\ UNCHANGED <<stage, now, opened, agg, flows, rawCount, gone>>
      /\ hand \in [Iface -> Packet \cup {Nobody}] /\ thread' = [thread EXCEPT ![i] = thread'[i]]
      /\ thread'[i] \in {"read", "stamp", "over"} /\ (thread'[i] = "over" => ~(now < WindowTicks))
      /\ thread \in [Iface -> {"open", "read", "stamp", "observe", "over"}]
  BY <1>1 DEF ReadPacket, Step, Back, WindowInv, outVars
<1>3. wanted \in Nat /\ Flows(agg) /\ Total(agg) + Cardinality(InHand) = wanted
  BY <1>2 DEF LossInv, NothingIsLost, TypeInv, TypeOK, CaptureTypeOK
<1>4. Total(agg) \in Nat
  BY <1>3, TotalCounts, UnitsAreFinite, FS_CardinalityType
<1>5. IsFiniteSet(InHand) /\ Cardinality(InHand) \in Nat
  <2>1. InHand \in SUBSET Iface /\ IsFiniteSet(Iface)
    BY CaptureAssumption DEF InHand
  <2>2. QED
    BY <2>1, FS_Subset, FS_CardinalityType
<1>6. Total(agg)' + Cardinality(InHand)' = wanted'
  <2>1. Total(agg)' = Total(agg)
    BY <1>2
  <2>2. CASE ~Hits(p)
    <3>1. InHand' = InHand
      BY <1>1, <2>2 DEF InHand
    <3>2. QED
      BY <1>1, <1>3, <2>1, <2>2, <3>1
  <2>3. CASE Hits(p)
    <3>1. InHand' = InHand \cup {i} /\ i \notin InHand
      BY <1>1, <1>2, <2>3, CaptureAssumption DEF InHand
    <3>2. Cardinality(InHand') = Cardinality(InHand) + 1
      BY <1>5, <3>1, FS_AddElement
    <3>3. QED
      BY <1>1, <1>3, <1>4, <1>5, <2>1, <2>3, <3>2
  <2>4. QED
    BY <2>2, <2>3
<1>7. \A k \in Iface : /\ thread'[k] = "open" => thread[k] = "open"
                       /\ thread'[k] = "over" => thread[k] = "over" \/ ~(now < WindowTicks)
  BY <1>2
<1>8. NothingIsLost'
  <2>1. \A k \in opened' : Windows' /\ thread'[k] = "over" /\ now' < WindowTicks => k \in gone'
    BY <1>2, <1>7 DEF LossInv, NothingIsLost, Windows, TypeInv, TypeOK, CaptureTypeOK
  <2>2. QED
    BY <1>2, <1>6, <2>1 DEF NothingIsLost
<1>9. Flows(agg)' /\ (Linux' <=> Linux)
  BY <1>2, <1>3 DEF Flows, Linux
<1>10. QED
  BY <1>2, <1>7, <1>8, <1>9 DEF LossInv

LEMMA LossObserve ==
  ASSUME LossInv, TypeInv, WindowInv, os' = os, NEW i \in Iface, ObserveIt(i) PROVE LossInv'
<1>1. /\ stage = "capture" /\ thread[i] = "observe"
      /\ thread' = [thread EXCEPT ![i] = Back] /\ hand' = [hand EXCEPT ![i] = Nobody]
      /\ Back \in {"read", "over"} /\ (Back = "over" => ~(now < WindowTicks))
      /\ agg' = Observed(agg, hand[i], stamp[i])
      /\ UNCHANGED <<stage, now, opened, flows, rawCount, wanted, gone>>
  BY DEF ObserveIt, Step, Back, outVars, historyVars
<1>2. /\ hand \in [Iface -> Packet \cup {Nobody}] /\ hand[i] \in Packet /\ stamp[i] \in Nat
      /\ hand[i] # Nobody
      /\ thread \in [Iface -> {"open", "read", "stamp", "observe", "over"}]
  BY <1>1, CaptureAssumption DEF WindowInv, TypeInv, TypeOK, CaptureTypeOK
<1>3. wanted \in Nat /\ Flows(agg) /\ Total(agg) + Cardinality(InHand) = wanted
  BY <1>1 DEF LossInv, NothingIsLost, TypeInv, TypeOK, CaptureTypeOK
<1>4. Total(agg) \in Nat
  BY <1>3, TotalCounts, UnitsAreFinite, FS_CardinalityType
<1>5. IsFiniteSet(InHand) /\ Cardinality(InHand) \in Nat
  <2>1. InHand \in SUBSET Iface /\ IsFiniteSet(Iface)
    BY CaptureAssumption DEF InHand
  <2>2. QED
    BY <2>1, FS_Subset, FS_CardinalityType
<1>6. Flows(agg') /\ Total(agg') = Total(agg) + 1
  BY <1>1, <1>2, <1>3, TotalObserved
<1>7. InHand' = InHand \ {i} /\ i \in InHand
  BY <1>1, <1>2 DEF InHand
<1>8. Cardinality(InHand') = Cardinality(InHand) - 1
  BY <1>5, <1>7, FS_RemoveElement
<1>9. Flows(agg)' /\ Total(agg)' + Cardinality(InHand)' = wanted'
  <2>1. Total(agg') + Cardinality(InHand') = wanted
    BY <1>3, <1>4, <1>5, <1>6, <1>8
  <2>2. QED
    BY <1>1, <1>6, <2>1 DEF Flows
<1>10. \A k \in Iface : /\ thread'[k] = "open" => thread[k] = "open"
                        /\ thread'[k] = "over" => thread[k] = "over" \/ ~(now < WindowTicks)
  BY <1>1, <1>2
<1>11. NothingIsLost'
  <2>1. \A k \in opened' : Windows' /\ thread'[k] = "over" /\ now' < WindowTicks => k \in gone'
    BY <1>1, <1>10 DEF LossInv, NothingIsLost, Windows, TypeInv, TypeOK, CaptureTypeOK
  <2>2. QED
    BY <1>1, <1>9, <2>1 DEF NothingIsLost
<1>12. QED
  BY <1>1, <1>9, <1>10, <1>11 DEF LossInv

LEMMA LossThread ==
  ASSUME LossInv, TypeInv, WindowInv, os' = os, NEW i \in Iface, ThreadStep(i) PROVE LossInv'
<1>1. CASE OpenSocket(i) \/ ReadError(i) \/ ReadTimesOut(i) \/ StampIt(i)
  <2>1. /\ UNCHANGED <<stage, agg, flows, rawCount, hand, reads, wanted, now>>
        /\ stage = "capture"
        /\ thread' = [thread EXCEPT ![i] = thread'[i]] /\ thread'[i] # "open"
    BY <1>1 DEF OpenSocket, ReadError, ReadTimesOut, StampIt, Step, Back, sharedVars, outVars,
                historyVars, TypeInv, TypeOK, CaptureTypeOK
  <2>2. /\ thread \in [Iface -> {"open", "read", "stamp", "observe", "over"}]
        /\ opened \subseteq Iface
    BY DEF TypeInv, TypeOK, CaptureTypeOK
  <2>3. opened' \subseteq opened \cup {i} /\ gone \subseteq gone'
    BY <1>1 DEF OpenSocket, ReadError, ReadTimesOut, StampIt, historyVars
  <2>4. \A k \in Iface : thread'[k] = "open" => k \notin opened'
    <3>1. \A k \in Iface \ {i} : thread'[k] = thread[k]
      BY <2>1, <2>2
    <3>2. QED
      BY <2>1, <2>3, <3>1 DEF LossInv
  <2>5. i \in opened' /\ Windows /\ thread'[i] = "over" /\ now < WindowTicks => i \in gone'
    <3>1. CASE OpenSocket(i)
      <4>1. thread[i] = "open" /\ i \notin opened
        BY <3>1 DEF OpenSocket, Step, LossInv
      <4>2. QED
        BY <2>2, <3>1, <4>1 DEF OpenSocket, Step, Back
    <3>2. CASE ReadError(i)
      <4>1. PICK e \in Error :
              /\ Step(i, "read", IF Recoverable(e) THEN Back ELSE "over")
              /\ gone' = IF e = "gone" THEN gone \cup {i} ELSE gone
        BY <3>2 DEF ReadError
      <4>2. Windows /\ e # "gone" => thread'[i] = Back
        BY <2>2, <4>1 DEF Step, Recoverable
      <4>3. QED
        BY <4>1, <4>2 DEF Back
    <3>3. CASE ReadTimesOut(i)
      BY <2>2, <3>3 DEF ReadTimesOut, Step, Back
    <3>4. CASE StampIt(i)
      BY <2>2, <3>4 DEF StampIt, Step
    <3>5. QED
      BY <1>1, <3>1, <3>2, <3>3, <3>4
  <2>6. \A k \in opened' : Windows /\ thread'[k] = "over" /\ now' < WindowTicks => k \in gone'
    <3>1. ASSUME NEW k \in opened', k # i, Windows, thread'[k] = "over", now < WindowTicks
          PROVE  k \in gone'
      <4>1. k \in opened /\ thread[k] = "over"
        BY <2>1, <2>2, <2>3, <3>1
      <4>2. QED
        BY <2>3, <3>1, <4>1 DEF LossInv, NothingIsLost
    <3>2. QED
      BY <2>1, <2>5, <3>1
  <2>7. QED
    BY <2>1, <2>4, <2>6, LossUnmoved
<1>2. QED
  BY <1>1, LossRead, LossObserve DEF ThreadStep, RunsOn

LEMMA LossCapture ==
  ASSUME LossInv, TypeInv, WindowInv, os' = os, CaptureStep PROVE LossInv'
<1>1. CASE HelperRefuses \/ HelperRuns
  <2>1. /\ stage = "helper" /\ stage' \in {"capture", "done"} /\ Linux
        /\ UNCHANGED <<agg, flows, opened, hand, wanted, thread>>
    BY <1>1 DEF HelperRefuses, HelperRuns, LossInv, threadVars, sharedVars, outVars, historyVars
  <2>2. agg = Nothing /\ wanted = 0 /\ opened = {} /\ hand = NoPackets /\ flows = Nothing
    BY <2>1 DEF LossInv
  <2>3. Cardinality(InHand) = 0 /\ InHand' = InHand
    BY <2>1, <2>2, EmptyHands DEF InHand
  <2>4. Flows(agg') /\ Total(agg') = 0 /\ Total(flows') = 0
    BY <2>1, <2>2, NothingCounts
  <2>5. Flows(agg)' /\ Total(agg)' = 0 /\ Total(flows)' = 0
    BY <2>4 DEF Flows
  <2>6. ~Windows'
    BY <2>1 DEF Linux, Windows
  <2>7. NothingIsLost'
    BY <2>1, <2>2, <2>3, <2>5, <2>6 DEF NothingIsLost
  <2>8. QED
    BY <2>1, <2>2, <2>5, <2>7 DEF LossInv
<1>2. CASE HelperUnusable
  <2>1. Afresh /\ stage' = "capture" /\ stage # "done" /\ flows' = flows
    BY <1>2 DEF HelperUnusable, outVars
  <2>2. flows' = Nothing
    BY <2>1 DEF LossInv
  <2>3. QED
    BY <2>1, <2>2, LossAfresh
<1>3. CASE Collect
  <2>1. /\ stage = "capture" /\ stage' = "done" /\ flows' = agg
        /\ rawCount' = IF Windows /\ opened # {} THEN raw ELSE NoCount
        /\ \A i \in Iface : thread[i] = "over"
        /\ UNCHANGED <<now, thread, hand, opened, agg, reads, wanted, gone>>
    BY <1>3 DEF Collect, threadVars, sharedVars, historyVars
  <2>2. InHand = {}
    BY <2>1 DEF WindowInv, InHand
  <2>3. Total(agg) = wanted
    <3>1. Flows(agg) /\ Total(agg) + Cardinality(InHand) = wanted
      BY <2>1 DEF LossInv, NothingIsLost
    <3>2. Total(agg) \in Nat
      BY <3>1, TotalCounts, UnitsAreFinite, FS_CardinalityType
    <3>3. Cardinality(InHand) = 0
      BY <2>2, FS_EmptySet
    <3>4. QED
      BY <3>1, <3>2, <3>3
  <2>4. Total(flows)' = wanted' /\ (Windows' <=> Windows) /\ (Flows(agg)' <=> Flows(agg))
    BY <2>1, <2>3 DEF Windows, Flows
  <2>5. Windows' => rawCount' = IF opened' = {} THEN NoCount ELSE reads'
    BY <2>1, <2>4 DEF TypeInv, RawInv
  <2>6. \A i \in opened' : Windows' /\ thread'[i] = "over" /\ now' < WindowTicks => i \in gone'
    BY <2>1, <2>4 DEF LossInv, NothingIsLost
  <2>7. NothingIsLost'
    BY <2>1, <2>4, <2>5, <2>6 DEF NothingIsLost
  <2>8. QED
    BY <2>1, <2>4, <2>7 DEF LossInv
<1>4. CASE \E i \in Iface : ThreadStep(i)
  BY <1>4, LossThread
<1>5. CASE TimePasses
  <2>1. /\ UNCHANGED <<stage, agg, flows, rawCount, hand, reads, wanted, thread, opened, gone>>
        /\ now' = now + 1 /\ stage = "capture"
    BY <1>5 DEF TimePasses, threadVars, sharedVars, outVars, historyVars
  <2>2. now \in Nat /\ WindowTicks \in Nat
    BY CaptureAssumption DEF TypeInv, TypeOK, CaptureTypeOK
  <2>3. \A i \in opened' : Windows /\ thread'[i] = "over" /\ now' < WindowTicks => i \in gone'
    BY <2>1, <2>2 DEF LossInv, NothingIsLost
  <2>4. \A i \in Iface : thread'[i] = "open" => i \notin opened'
    BY <2>1 DEF LossInv
  <2>5. QED
    BY <2>1, <2>3, <2>4, LossUnmoved
<1>6. QED
  BY <1>1, <1>2, <1>3, <1>4, <1>5 DEF CaptureStep

LEMMA LossStill ==
  ASSUME LossInv, os' = os, UNCHANGED captureVars PROVE LossInv'
<1>1. UNCHANGED <<os, stage, agg, flows, rawCount, hand, reads, wanted, thread, opened, now, gone>>
  BY DEF captureVars, threadVars, sharedVars, outVars, historyVars
<1>2. /\ \A i \in Iface : thread'[i] = "open" => i \notin opened'
      /\ \A i \in opened' : Windows /\ thread'[i] = "over" /\ now' < WindowTicks => i \in gone'
  BY <1>1 DEF LossInv, NothingIsLost
<1>3. QED
  BY <1>1, <1>2, LossUnmoved

LEMMA LossKept ==
  ASSUME LossInv, TypeInv, CycleInv, [Next]_vars PROVE LossInv'
<1>1. CASE ScanStep \/ SkipWindow \/ UNCHANGED vars
  BY <1>1, LossStill DEF ScanStep, SkipWindow, Rest, vars
<1>2. CASE StartWindow
  <2>1. /\ stage = "idle" /\ stage' \in {"capture", "done", "helper"}
        /\ stage' # "capture" => Linux
        /\ UNCHANGED <<os, agg, flows, opened, hand, wanted, thread>>
    BY <1>2 DEF StartWindow, Begin, Linux, Windows, Systems, TypeInv, TypeOK, threadVars,
                sharedVars, outVars, historyVars
  <2>2. agg = Nothing /\ wanted = 0 /\ opened = {} /\ hand = NoPackets /\ flows = Nothing
    BY <2>1 DEF LossInv
  <2>3. Cardinality(InHand) = 0 /\ InHand' = InHand
    BY <2>1, <2>2, EmptyHands DEF InHand
  <2>4. Flows(agg') /\ Total(agg') = 0 /\ Total(flows') = 0
    BY <2>1, <2>2, NothingCounts
  <2>5. Flows(agg)' /\ Total(agg)' = 0 /\ Total(flows)' = 0
    BY <2>4 DEF Flows
  <2>6. stage' # "capture" => Linux' /\ ~Windows'
    BY <2>1 DEF Linux, Windows
  <2>7. NothingIsLost'
    BY <2>1, <2>2, <2>3, <2>5, <2>6 DEF NothingIsLost
  <2>8. QED
    BY <2>1, <2>2, <2>5, <2>6, <2>7 DEF LossInv
<1>3. CASE WindowStep
  BY <1>3, LossCapture DEF WindowStep, CycleInv
<1>4. CASE EndWindow
  BY <1>4, LossAfresh DEF EndWindow, Release
<1>5. QED
  BY <1>1, <1>2, <1>3, <1>4 DEF Next

\* Threads that stamp and add their packets in any order lose none, whatever the
\* number of interfaces and packets; the count returned is of all that was read,
\* and on Windows only a socket that is gone ends a thread early.
THEOREM NoPacketIsLost == Spec => []NothingIsLost
<1>1. LossInv => NothingIsLost
  BY DEF LossInv
<1>2. QED
  BY <1>1, LossStart, LossKept, TypesHold, CycleHolds, PTL DEF Spec
==============================================================================
