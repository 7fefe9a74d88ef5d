------------------------- MODULE DesktopShellProofs -------------------------
(***************************************************************************)
(* Proofs about DesktopShell, for any accelerators, screens, windows and   *)
(* sizes, any activities, any queue, wait and escalation, any log files    *)
(* and budgets: the types of every part, the hotkey and the overlay, the   *)
(* countdown's click, the Discord presence, what the shared health of the  *)
(* capture comes to, and what the export of the logs contains.             *)
(***************************************************************************)
EXTENDS DesktopShell, InductionLemmas, SequenceTheorems, FunctionTheorems, TLAPS

-----------------------------------------------------------------------------
(* The overlay *)

OverlayInv ==
  /\ OverlayTypeOK
  /\ Home \in screens
  /\ HotkeyIsBound
  /\ OverlayFloats
  /\ OverlayIsReachable

LEMMA OverlayStart == ASSUME Init PROVE OverlayInv
<1>1. OverlayInit
  BY DEF Init
<1>2. OverlayTypeOK /\ Home \in screens
  BY <1>1, OverlayAssumption DEF OverlayInit, OverlayTypeOK
<1>3. QED
  BY <1>1, <1>2 DEF OverlayInit, OverlayInv, HotkeyIsBound, OverlayFloats, OverlayIsReachable

\* The types, and the screen that is always there.
LEMMA OverlayTypes ==
  ASSUME OverlayInv, OverlayStep PROVE OverlayTypeOK' /\ Home \in screens'
<1>1. OverlayTypeOK /\ Home \in screens /\ place \in Screen /\ Home \in Screen
  BY OverlayAssumption DEF OverlayInv, OverlayTypeOK
<1>2. CASE StartApp
  <2>1. Restored \in Screen
    BY <1>1 DEF Restored
  <2>2. /\ up' = TRUE /\ unheld' \in BOOLEAN
        /\ there' = TRUE /\ visible' = FALSE /\ raised' = FALSE /\ intent' = FALSE
        /\ focus' = "main" /\ blurred' = FALSE /\ wish' = FALSE /\ slipped' = FALSE
    BY <1>2 DEF StartApp
  <2>3. /\ taken' = taken /\ bound' = {Default} \ taken /\ hotkey' = Default
        /\ place' \in Screen /\ screens' = screens /\ file' = file
    BY <1>1, <1>2, <2>1 DEF StartApp
  <2>4. QED
    BY <1>1, <2>2, <2>3, OverlayAssumption DEF OverlayTypeOK
<1>3. CASE CloseMain \/ Crash \/ CloseOverlay
  BY <1>1, <1>3
     DEF CloseMain, Crash, CloseOverlay, Gone, FocusPasses, OverlayTypeOK, hotkeyVars, layoutVars
<1>4. CASE PressHotkey \/ Tick \/ LoseFocus \/ GainFocus \/ HandleBlur
  BY <1>1, <1>4
     DEF PressHotkey, Shown, Hidden, FocusPasses, Raise, Tick, LoseFocus, GainFocus, HandleBlur,
         OverlayTypeOK, hotkeyVars, layoutVars
<1>5. CASE OthersTake
  BY <1>1, <1>5 DEF OthersTake, OverlayTypeOK, windowVars, layoutVars
<1>6. ASSUME NEW c \in Combo, Rebind(c) PROVE OverlayTypeOK' /\ Home \in screens'
  BY <1>1, <1>6 DEF Rebind, OverlayTypeOK, windowVars, layoutVars
<1>7. CASE MoveScreens \/ DragOverlay
  BY <1>1, <1>7 DEF MoveScreens, DragOverlay, OverlayTypeOK, hotkeyVars, windowVars
<1>8. QED
  BY <1>2, <1>3, <1>4, <1>5, <1>6, <1>7 DEF OverlayStep

LEMMA HotkeyKept == ASSUME OverlayInv, OverlayStep PROVE HotkeyIsBound'
<1>1. HotkeyIsBound
  BY DEF OverlayInv
<1>2. CASE StartApp
  BY <1>2 DEF StartApp, HotkeyIsBound
<1>3. CASE CloseMain \/ Crash
  BY <1>3 DEF CloseMain, Crash, Gone, HotkeyIsBound
<1>4. ASSUME NEW c \in Combo, Rebind(c) PROVE HotkeyIsBound'
  BY <1>4 DEF Rebind, HotkeyIsBound
<1>5. CASE UNCHANGED <<up, bound, hotkey, unheld>>
  BY <1>1, <1>5 DEF HotkeyIsBound
<1>6. QED
  BY <1>2, <1>3, <1>4, <1>5
     DEF OverlayStep, CloseOverlay, PressHotkey, OthersTake, Tick, LoseFocus, GainFocus,
         HandleBlur, MoveScreens, DragOverlay, hotkeyVars

LEMMA FloatKept == ASSUME OverlayInv, OverlayStep, os' = os PROVE OverlayFloats'
<1>1. OverlayFloats /\ OverlayTypeOK
  BY DEF OverlayInv
<1>2. CASE StartApp \/ CloseMain \/ Crash \/ CloseOverlay
  BY <1>2 DEF StartApp, CloseMain, Crash, CloseOverlay, Gone, OverlayFloats
<1>3. CASE PressHotkey
  BY <1>3 DEF PressHotkey, Shown, Hidden, Raise, OverlayFloats
<1>4. CASE Tick \/ LoseFocus \/ GainFocus
  <2>1. CASE Tick
    BY <2>1 DEF Tick, OverlayFloats
  <2>2. CASE LoseFocus
    <3>1. focus \in {"main", "overlay"}
      BY <1>1, <2>2 DEF LoseFocus, OverlayTypeOK
    <3>2. blurred' \/ slipped'
      BY <2>2, <3>1 DEF LoseFocus
    <3>3. QED
      BY <3>2 DEF OverlayFloats
  <2>3. CASE GainFocus
    <3>1. CASE focus = "main"
      <4>1. blurred'
        BY <2>3, <3>1 DEF GainFocus
      <4>2. QED
        BY <4>1 DEF OverlayFloats
    <3>2. CASE focus # "main"
      <4>1. UNCHANGED <<os, up, there, visible, raised, intent, slipped>>
        BY <2>3 DEF GainFocus
      <4>2. blurred' <=> blurred
        BY <2>3, <3>2 DEF GainFocus
      <4>3. QED
        BY <1>1, <3>2, <4>1, <4>2 DEF OverlayFloats, Linux
    <3>3. QED
      BY <3>1, <3>2
  <2>4. QED
    BY <1>4, <2>1, <2>2, <2>3
<1>5. CASE HandleBlur
  <2>1. UNCHANGED <<up, there, intent, focus>>
    BY <1>5 DEF HandleBlur
  <2>2. Linux' <=> Linux
    BY DEF Linux
  <2>3. Linux /\ there /\ intent => visible' = TRUE /\ raised' = TRUE
    BY <1>5 DEF HandleBlur, Raise
  <2>4. QED
    BY <2>1, <2>2, <2>3 DEF OverlayFloats
<1>6. CASE UNCHANGED <<up, windowVars>>
  <2>1. UNCHANGED <<os, up, there, intent, focus, blurred, slipped, visible, raised>>
    BY <1>6 DEF windowVars
  <2>2. QED
    BY <1>1, <2>1 DEF OverlayFloats, Linux
<1>7. QED
  BY <1>2, <1>3, <1>4, <1>5, <1>6
     DEF OverlayStep, OthersTake, Rebind, MoveScreens, DragOverlay

LEMMA ReachKept == ASSUME OverlayInv, OverlayStep PROVE OverlayIsReachable'
<1>1. OverlayIsReachable /\ Home \in screens
  BY DEF OverlayInv
<1>2. CASE StartApp
  BY <1>1, <1>2 DEF StartApp, Restored, OverlayIsReachable
<1>3. CASE CloseMain \/ Crash \/ MoveScreens \/ DragOverlay
  BY <1>3 DEF CloseMain, Crash, Gone, MoveScreens, DragOverlay, OverlayIsReachable
<1>4. CASE UNCHANGED <<up, layoutVars>>
  BY <1>1, <1>4 DEF OverlayIsReachable, layoutVars
<1>5. QED
  BY <1>2, <1>3, <1>4
     DEF OverlayStep, CloseOverlay, PressHotkey, OthersTake, Rebind, Tick, LoseFocus,
         GainFocus, HandleBlur

LEMMA OverlayKept == ASSUME OverlayInv, [Next]_vars PROVE OverlayInv'
<1>1. CASE OverlayNext
  BY <1>1, OverlayTypes, HotkeyKept, FloatKept, ReachKept DEF OverlayNext, OverlayInv
<1>2. CASE UNCHANGED <<os, overlayVars>>
  BY <1>2
     DEF OverlayInv, OverlayTypeOK, HotkeyIsBound, OverlayFloats, OverlayIsReachable,
         Linux, overlayVars, hotkeyVars, windowVars, layoutVars
<1>3. QED
  BY <1>1, <1>2 DEF Next, HealthNext, CountdownNext, PresenceNext, LogNext, vars

-----------------------------------------------------------------------------
(* The presence *)

\* A profile shows something only through a client of a Discord that runs, and the
\* last command sent is the last in the channel.
PresenceInv ==
  /\ queue \in Seq(Command)
  /\ profile \in Command
  /\ client \in BOOLEAN /\ stale \in BOOLEAN /\ discord \in BOOLEAN
  /\ stale => client
  /\ profile # Blank => discord /\ client /\ ~stale
  /\ queue # <<>> => queue[Len(queue)] = latest
  /\ NeverOutdated

LEMMA PresenceStart == ASSUME Init PROVE PresenceInv
<1>1. PresenceInit
  BY DEF Init
<1>2. queue \in Seq(Command) /\ profile \in Command
  BY <1>1 DEF PresenceInit, Command
<1>3. QED
  BY <1>1, <1>2 DEF PresenceInit, PresenceInv, NeverOutdated

\* Taking the only command leaves nothing, and taking one of several the last one.
LEMMA TakeSays ==
  ASSUME NEW q \in Seq(Command), q # <<>>
  PROVE  /\ Tail(q) \in Seq(Command) /\ Head(q) \in Command
         /\ Tail(q) = <<>> => Head(q) = q[Len(q)]
         /\ Tail(q) # <<>> => Tail(q)[Len(Tail(q))] = q[Len(q)]
<1>1. Len(q) \in Nat /\ Len(q) > 0 /\ Head(q) = q[1] /\ q[1] \in Command
  OBVIOUS
<1>2. /\ Tail(q) \in Seq(Command) /\ Len(Tail(q)) = Len(q) - 1
      /\ \A i \in 1..(Len(q) - 1) : Tail(q)[i] = q[i + 1]
  BY <1>1
<1>3. Tail(q) = <<>> <=> Len(Tail(q)) = 0
  BY <1>2
<1>4. QED
  BY <1>1, <1>2, <1>3

LEMMA PresenceStepKept == ASSUME PresenceInv, PresenceStep PROVE PresenceInv'
<1>1. CASE Push
  <2>1. latest' \in Command /\ queue' = Append(queue, latest')
    BY <1>1 DEF Push
  <2>2. queue' \in Seq(Command) /\ queue' # <<>> /\ queue'[Len(queue')] = latest'
    BY <2>1 DEF PresenceInv
  <2>3. UNCHANGED <<discord, client, stale, profile>>
    BY <1>1 DEF Push
  <2>4. QED
    BY <2>2, <2>3 DEF PresenceInv, NeverOutdated
<1>2. CASE Worker
  <2>1. Take /\ latest' = latest /\ discord' = discord
    BY <1>2 DEF Worker, TakeConnected, TakeTooSoon, TakeAndConnect
  <2>2. /\ queue' \in Seq(Command) /\ Head(queue) \in Command
        /\ queue' = <<>> => Head(queue) = latest
        /\ queue' # <<>> => queue'[Len(queue')] = latest'
    BY <2>1, TakeSays DEF Take, PresenceInv
  <2>3. profile' = Head(queue) \/ (profile' = profile /\ ~(discord /\ client /\ ~stale))
    BY <1>2 DEF Worker, TakeConnected, TakeTooSoon, TakeAndConnect, PresenceInv
  <2>4. /\ client' \in BOOLEAN /\ stale' \in BOOLEAN /\ (stale' => client')
        /\ profile' # Blank => discord' /\ client' /\ ~stale'
    <3>1. CASE TakeConnected
      BY <3>1 DEF TakeConnected, PresenceInv
    <3>2. CASE TakeTooSoon
      BY <3>2 DEF TakeTooSoon, PresenceInv
    <3>3. CASE TakeAndConnect
      BY <3>3 DEF TakeAndConnect, PresenceInv
    <3>4. QED
      BY <1>2, <3>1, <3>2, <3>3 DEF Worker
  <2>5. QED
    BY <2>1, <2>2, <2>3, <2>4 DEF PresenceInv, NeverOutdated
<1>3. CASE TimeGoes
  BY <1>3 DEF TimeGoes, PresenceInv, NeverOutdated
<1>4. CASE DiscordMoves
  BY <1>4 DEF DiscordMoves, PresenceInv, NeverOutdated, Command
<1>5. QED
  BY <1>1, <1>2, <1>3, <1>4 DEF PresenceStep

LEMMA PresenceKept == ASSUME PresenceInv, [Next]_vars PROVE PresenceInv'
<1>1. CASE PresenceNext
  BY <1>1, PresenceStepKept DEF PresenceNext
<1>2. CASE UNCHANGED presenceVars
  BY <1>2 DEF PresenceInv, NeverOutdated, presenceVars
<1>3. QED
  BY <1>1, <1>2 DEF Next, HealthNext, OverlayNext, CountdownNext, LogNext, vars

\* The wait and the channel keep their bounds.
LEMMA PresenceTypesKept ==
  ASSUME PresenceTypeOK, PresenceStep PROVE PresenceTypeOK'
<1>1. /\ {discord, client, stale} \subseteq BOOLEAN
      /\ queue \in Seq(Command) /\ Len(queue) <= MaxQueue /\ MaxQueue \in Nat
      /\ since \in 0..Due /\ Due \in Nat
      /\ profile \in Command /\ latest \in Command \cup {Unsent} /\ Blank \in Command
  BY PresenceAssumption DEF PresenceTypeOK, Command
<1>2. CASE Push
  <2>1. latest' \in Command /\ queue' = Append(queue, latest') /\ Len(queue) < MaxQueue
        /\ UNCHANGED <<discord, client, stale, since, profile>>
    BY <1>2 DEF Push
  <2>2. queue' \in Seq(Command) /\ Len(queue') <= MaxQueue
    BY <1>1, <2>1
  <2>3. QED
    BY <1>1, <2>1, <2>2 DEF PresenceTypeOK
<1>3. CASE Worker
  <2>1. Take /\ latest' = latest /\ discord' = discord
    BY <1>3 DEF Worker, TakeConnected, TakeTooSoon, TakeAndConnect
  <2>2. queue' \in Seq(Command) /\ Len(queue') <= MaxQueue /\ Head(queue) \in Command
    BY <1>1, <2>1, TakeSays DEF Take
  <2>3. since' = since \/ since' = 0
    BY <1>3 DEF Worker, TakeConnected, TakeTooSoon, TakeAndConnect
  <2>4. profile' = profile \/ profile' = Head(queue)
    BY <1>3 DEF Worker, TakeConnected, TakeTooSoon, TakeAndConnect
  <2>5. {client', stale'} \subseteq BOOLEAN
    BY <1>1, <1>3 DEF Worker, TakeConnected, TakeTooSoon, TakeAndConnect
  <2>6. QED
    BY <1>1, <2>1, <2>2, <2>3, <2>4, <2>5 DEF PresenceTypeOK
<1>4. CASE TimeGoes
  BY <1>1, <1>4 DEF TimeGoes, PresenceTypeOK
<1>5. CASE DiscordMoves
  BY <1>1, <1>5 DEF DiscordMoves, PresenceTypeOK
<1>6. QED
  BY <1>2, <1>3, <1>4, <1>5 DEF PresenceStep

LEMMA PresenceTypesStart == ASSUME PresenceInit PROVE PresenceTypeOK
<1>1. queue \in Seq(Command) /\ Len(queue) = 0 /\ Blank \in Command
  BY DEF PresenceInit, Command
<1>2. MaxQueue \in Nat /\ 0 <= MaxQueue /\ Due \in 0..Due
  BY PresenceAssumption
<1>3. /\ {discord, client, stale} \subseteq BOOLEAN /\ since \in 0..Due
      /\ profile \in Command /\ latest \in Command \cup {Unsent}
  BY <1>1, <1>2 DEF PresenceInit
<1>4. QED
  BY <1>1, <1>2, <1>3 DEF PresenceTypeOK

-----------------------------------------------------------------------------
(* The health of the capture *)

\* While a game is closed and its loop is at rest, only a diagnostic's verdict
\* can have armed the banner.
BannerInv ==
  /\ pc \in [Actor -> {"idle", "reset", "connect", "capture", "count", "store", "finish"}]
  /\ api = "Closed" /\ pc[Live] \in {"idle", "reset"} /\ state \in Repair => late

LEMMA BannerStart == ASSUME Init PROVE BannerInv
BY DEF Init, HealthInit, BannerInv, Repair

LEMMA BannerStepKept == ASSUME BannerInv, HealthStep PROVE BannerInv'
<1>1. Live \in Actor /\ \A d \in Diag : d \in Actor /\ d # Live
  BY HealthAssumption DEF Actor
<1>2. CASE World
  BY <1>2 DEF World, BannerInv, actorVars, healthVars
<1>3. CASE SeesClosed
  BY <1>1, <1>3 DEF SeesClosed, Goto, BannerInv, Repair
<1>4. CASE ResetStreak
  BY <1>1, <1>4 DEF ResetStreak, Goto, At, BannerInv
<1>5. CASE SeesNoSockets \/ WindowDone
  BY <1>1, <1>5 DEF SeesNoSockets, WindowDone, Goto, BannerInv, actorVars
<1>6. CASE StartsWindow
  BY <1>1, <1>6 DEF StartsWindow, Goto, BannerInv
<1>7. ASSUME NEW d \in Diag, StartDiagnostic(d) \/ DiagnosticDone(d) PROVE BannerInv'
  BY <1>1, <1>7 DEF StartDiagnostic, DiagnosticDone, Goto, BannerInv, healthVars
<1>8. ASSUME NEW a \in Actor, CaptureStep(a) PROVE BannerInv'
  <2>1. CASE Store(a)
    BY <1>1, <2>1 DEF Store, Goto, At, BannerInv
  <2>2. CASE Connect(a) \/ ConnectFails(a) \/ Served(a) \/ CaptureLost(a) \/ Count(a)
    <3>1. /\ UNCHANGED <<api, state, late>>
          /\ pc' = [pc EXCEPT ![a] = "capture"] \/ pc' = [pc EXCEPT ![a] = "count"]
             \/ pc' = [pc EXCEPT ![a] = "store"]
      BY <2>2 DEF Connect, ConnectFails, Served, CaptureLost, Count, Result, Goto, healthVars
    <3>2. QED
      BY <1>1, <3>1 DEF BannerInv
  <2>3. QED
    BY <1>8, <2>1, <2>2 DEF CaptureStep
<1>9. QED
  BY <1>2, <1>3, <1>4, <1>5, <1>6, <1>7, <1>8 DEF HealthStep

LEMMA BannerKept == ASSUME BannerInv, [Next]_vars PROVE BannerInv'
<1>1. CASE HealthNext
  BY <1>1, BannerStepKept DEF HealthNext
<1>2. CASE UNCHANGED bannerVars
  BY <1>2 DEF BannerInv, bannerVars, envVars, healthVars, actorVars
<1>3. QED
  BY <1>1, <1>2 DEF Next, OverlayNext, CountdownNext, PresenceNext, LogNext, vars

-----------------------------------------------------------------------------
(* Its types *)

\* Whoever captures, and how far they count.
LEMMA Everybody ==
  /\ Live \in Actor /\ \A d \in Diag : d \in Actor /\ d # Live
  /\ Nil \notin Actor /\ Escalate \in Nat /\ 0 \in 0..Escalate
BY HealthAssumption DEF Actor

HealthTypes ==
  /\ holder \in Actor \cup {Nil}
  /\ flag \in BOOLEAN
  /\ streak \in 0..Escalate
  /\ pc \in [Actor -> {"idle", "reset", "connect", "capture", "count", "store", "finish"}]
  /\ outcome \in [Actor -> Failure \cup {"ok"}]
  /\ seen \in [Actor -> 0..Escalate]

\* A streak counted stays within its bound.
LEMMA CountedType ==
  ASSUME NEW a \in Actor, NEW n \in 0..Escalate
  PROVE  Counted(a, n) \in 0..Escalate
BY HealthAssumption DEF Counted

LEMMA HealthTypesKept == ASSUME HealthTypes, HealthStep PROVE HealthTypes'
<1>1. CASE World \/ SeesNoSockets
  BY <1>1 DEF World, SeesNoSockets, HealthTypes, healthVars, actorVars
<1>2. CASE SeesClosed \/ StartsWindow \/ WindowDone
  BY <1>2, Everybody DEF SeesClosed, StartsWindow, WindowDone, Goto, HealthTypes, healthVars
<1>3. CASE ResetStreak
  <2>1. streak' \in 0..Escalate
    BY <1>3, Everybody DEF ResetStreak
  <2>2. pc' = [pc EXCEPT ![Live] = "idle"] /\ UNCHANGED <<holder, flag, outcome, seen>>
    BY <1>3 DEF ResetStreak, Goto
  <2>3. QED
    BY <2>1, <2>2, Everybody DEF HealthTypes
<1>4. ASSUME NEW d \in Diag, StartDiagnostic(d) \/ DiagnosticDone(d) PROVE HealthTypes'
  BY <1>4, Everybody DEF StartDiagnostic, DiagnosticDone, Goto, HealthTypes, healthVars
<1>5. ASSUME NEW a \in Actor, CaptureStep(a) PROVE HealthTypes'
  <2>1. CASE Connect(a)
    BY <2>1, Everybody DEF Connect, Goto, HealthTypes, healthVars
  <2>2. CASE ConnectFails(a) \/ Served(a) \/ CaptureLost(a)
    <3>1. PICK o \in Failure \cup {"ok"} : Result(a, o)
      BY <2>2 DEF ConnectFails, Served, CaptureLost, GivenUp, Failure
    <3>2. /\ UNCHANGED <<flag, streak, seen>>
          /\ holder' \in {holder, Nil}
      BY <2>2 DEF ConnectFails, Served, CaptureLost, healthVars
    <3>3. QED
      BY <3>1, <3>2, Everybody DEF Result, Goto, HealthTypes
  <2>3. CASE Count(a)
    <3>1. Counted(a, streak) \in 0..Escalate
      BY CountedType DEF HealthTypes
    <3>2. QED
      BY <2>3, <3>1, Everybody DEF Count, Goto, HealthTypes
  <2>4. CASE Store(a)
    BY <2>4, Everybody DEF Store, Goto, HealthTypes
  <2>5. QED
    BY <1>5, <2>1, <2>2, <2>3, <2>4 DEF CaptureStep
<1>6. QED
  BY <1>1, <1>2, <1>3, <1>4, <1>5 DEF HealthStep

\* The world, and what is concluded of it.
VerdictTypes ==
  /\ {late, elevated, game, broken} \subseteq BOOLEAN
  /\ api \in {"Closed", "Open"}
  /\ service \in {"up", "down", "skewed", "wedged"}
  /\ state \in Health

LEMMA VerdictTypesKept == ASSUME HealthTypes, VerdictTypes, HealthStep PROVE VerdictTypes'
<1>1. CASE World
  <2>1. UNCHANGED <<late, api, state, elevated>> /\ {game', broken'} \subseteq BOOLEAN
    BY <1>1 DEF World, GameStarts, GameExits, ServiceTurns, VerdictTypes, healthVars
  <2>2. service' \in {"up", "down", "skewed", "wedged"}
    BY <1>1 DEF World, GameStarts, GameExits, ServiceTurns, VerdictTypes
  <2>3. QED
    BY <2>1, <2>2 DEF VerdictTypes
<1>2. CASE SeesClosed \/ ResetStreak \/ SeesNoSockets \/ StartsWindow \/ WindowDone
  BY <1>2
     DEF SeesClosed, ResetStreak, SeesNoSockets, StartsWindow, WindowDone, VerdictTypes,
         Health, envVars, healthVars
<1>3. ASSUME NEW d \in Diag, StartDiagnostic(d) \/ DiagnosticDone(d) PROVE VerdictTypes'
  BY <1>3 DEF StartDiagnostic, DiagnosticDone, VerdictTypes, envVars, healthVars
<1>4. ASSUME NEW a \in Actor, CaptureStep(a) PROVE VerdictTypes'
  <2>1. CASE Store(a)
    <3>1. outcome[a] \in Failure \cup {"ok"} /\ state \in Health
      BY DEF HealthTypes, VerdictTypes
    <3>2. Decide(outcome[a], seen[a]) \in Health
      BY <3>1 DEF Decide, Health, Failure
    <3>3. /\ state' \in Health /\ late' \in BOOLEAN
          /\ UNCHANGED <<elevated, game, broken, api, service>>
      BY <2>1, <3>2 DEF Store, VerdictTypes, envVars
    <3>4. QED
      BY <3>3 DEF VerdictTypes
  <2>2. CASE Connect(a) \/ ConnectFails(a) \/ Served(a) \/ CaptureLost(a) \/ Count(a)
    <3>1. UNCHANGED <<late, elevated, game, broken, api, service, state>>
      BY <2>2 DEF Connect, ConnectFails, Served, CaptureLost, Count, envVars, healthVars
    <3>2. QED
      BY <3>1 DEF VerdictTypes
  <2>3. QED
    BY <1>4, <2>1, <2>2 DEF CaptureStep
<1>5. QED
  BY <1>2, <1>1, <1>3, <1>4 DEF HealthStep

LEMMA HealthTypesStart == ASSUME HealthInit PROVE HealthTypes /\ VerdictTypes
<1>1. holder = Nil /\ flag = FALSE /\ streak \in 0..Escalate
  BY Everybody DEF HealthInit
<1>2. /\ pc \in [Actor -> {"idle", "reset", "connect", "capture", "count", "store", "finish"}]
      /\ outcome \in [Actor -> Failure \cup {"ok"}]
  BY DEF HealthInit
<1>3. seen \in [Actor -> 0..Escalate]
  BY Everybody DEF HealthInit
<1>4. HealthTypes
  BY <1>1, <1>2, <1>3 DEF HealthTypes
<1>5. VerdictTypes
  BY DEF HealthInit, VerdictTypes, Health
<1>6. QED
  BY <1>4, <1>5

-----------------------------------------------------------------------------
(* One diagnostic at a time *)

\* A second diagnostic may take the flag down under the first, which is why the
\* loop's streak is bounded for one only.
Lone == CHOOSE d \in Diag : TRUE

OneDiagnostic == Diag = {Lone} /\ Escalate >= 3

\* The pipe has one holder, and a diagnostic under way keeps the flag up.
HolderInv ==
  /\ \A a \in Actor : holder = a <=> pc[a] = "capture"
  /\ pc[Lone] # "reset"
  /\ pc[Lone] # "idle" => flag

\* The diagnostic has not counted its outcome yet, which will end the streak.
Pending == pc[Lone] \in {"connect", "capture", "count"}

\* What the loop's attempt may still add to the streak.
Owed ==
  IF \/ pc[Live] = "count" /\ outcome[Live] = "transient"
     \/ pc[Live] = "connect" /\ Pending
    THEN 1 ELSE 0

\* While the service has always been up, one attempt of the loop at most fails
\* for each diagnostic, and each diagnostic ends the streak.
Calm ==
  /\ service = "up" /\ state = "ok"
  /\ outcome[Lone] = "ok"
  /\ outcome[Live] \in {"ok", "transient"}
  /\ seen[Live] <= 2
  /\ streak + Owed <= (IF Pending THEN 2 ELSE 1)

CalmInv == HealthTypes /\ HolderInv /\ (~broken => Calm)

LEMMA Actors ==
  ASSUME OneDiagnostic
  PROVE  /\ Lone \in Actor /\ Live \in Actor /\ Lone # Live
         /\ \A a \in Actor : a = Lone \/ a = Live
         /\ \A d \in Diag : d = Lone
         /\ Nil \notin Actor
         /\ Escalate \in Nat /\ Escalate >= 3
BY HealthAssumption DEF OneDiagnostic, Actor

LEMMA CalmStart == ASSUME OneDiagnostic, Init PROVE CalmInv
<1>1. HealthInit
  BY DEF Init
<1>2. HealthTypes
  <2>1. holder = Nil /\ flag = FALSE /\ streak \in 0..Escalate
    BY <1>1, Actors DEF HealthInit
  <2>2. /\ pc \in [Actor -> {"idle", "reset", "connect", "capture", "count", "store", "finish"}]
        /\ outcome \in [Actor -> Failure \cup {"ok"}]
    BY <1>1 DEF HealthInit
  <2>3. seen \in [Actor -> 0..Escalate]
    BY <1>1, Actors DEF HealthInit
  <2>4. QED
    BY <2>1, <2>2, <2>3 DEF HealthTypes
<1>3. HolderInv /\ Calm
  BY <1>1, Actors DEF HealthInit, HolderInv, Calm, Owed, Pending
<1>4. QED
  BY <1>2, <1>3 DEF CalmInv

LEMMA HolderKept ==
  ASSUME OneDiagnostic, HealthTypes, HolderInv, HealthStep PROVE HolderInv'
<1>1. CASE World \/ SeesNoSockets
  BY <1>1 DEF World, SeesNoSockets, HolderInv, healthVars, actorVars
<1>2. CASE SeesClosed \/ StartsWindow \/ WindowDone \/ ResetStreak
  BY <1>2, Actors
     DEF SeesClosed, StartsWindow, WindowDone, ResetStreak, Goto, At, HealthTypes, HolderInv
<1>3. ASSUME NEW d \in Diag, StartDiagnostic(d) \/ DiagnosticDone(d) PROVE HolderInv'
  BY <1>3, Actors
     DEF StartDiagnostic, DiagnosticDone, Goto, At, HealthTypes, HolderInv
<1>4. ASSUME NEW a \in Actor, CaptureStep(a) PROVE HolderInv'
  <2>1. CASE Connect(a)
    BY <2>1, Actors DEF Connect, Goto, At, HealthTypes, HolderInv
  <2>2. CASE ConnectFails(a)
    BY <2>2, Actors DEF ConnectFails, Result, Goto, At, HealthTypes, HolderInv
  <2>3. CASE Served(a) \/ CaptureLost(a)
    BY <2>3, Actors DEF Served, CaptureLost, Result, Goto, At, HealthTypes, HolderInv
  <2>4. CASE Count(a) \/ Store(a)
    BY <2>4, Actors DEF Count, Store, Goto, At, HealthTypes, HolderInv
  <2>5. QED
    BY <1>4, <2>1, <2>2, <2>3, <2>4 DEF CaptureStep
<1>5. QED
  BY <1>1, <1>2, <1>3, <1>4 DEF HealthStep

\* The steps of the loop itself.
LEMMA LoopIsCalm ==
  ASSUME OneDiagnostic, CalmInv, ~broken, HolderInv', HealthTypes',
         SeesClosed \/ ResetStreak \/ SeesNoSockets \/ StartsWindow \/ WindowDone
  PROVE  Calm'
<1>1. Calm /\ HealthTypes /\ HolderInv /\ streak \in Nat
  BY DEF CalmInv, HealthTypes
<1>2. CASE SeesClosed \/ WindowDone \/ SeesNoSockets
  BY <1>1, <1>2, Actors
     DEF SeesClosed, WindowDone, SeesNoSockets, Goto, At, HealthTypes, Calm, Owed, Pending,
         envVars, healthVars, actorVars
<1>3. CASE ResetStreak
  BY <1>1, <1>3, Actors DEF ResetStreak, Goto, At, HealthTypes, Calm, Owed, Pending, envVars
<1>4. CASE StartsWindow
  <2>1. pc[Lone] = "idle"
    BY <1>1, <1>4 DEF StartsWindow, HolderInv
  <2>2. QED
    BY <1>1, <1>4, <2>1, Actors
       DEF StartsWindow, Goto, At, HealthTypes, Calm, Owed, Pending, envVars, healthVars
<1>5. QED
  BY <1>2, <1>3, <1>4

LEMMA DiagnosticIsCalm ==
  ASSUME OneDiagnostic, CalmInv, ~broken, StartDiagnostic(Lone) \/ DiagnosticDone(Lone)
  PROVE  Calm'
<1>1. Calm /\ HealthTypes /\ streak \in Nat
  BY DEF CalmInv, HealthTypes
<1>2. CASE StartDiagnostic(Lone)
  BY <1>1, <1>2, Actors
     DEF StartDiagnostic, Goto, At, HealthTypes, Calm, Owed, Pending, envVars, healthVars
<1>3. CASE DiagnosticDone(Lone)
  BY <1>1, <1>3, Actors
     DEF DiagnosticDone, Goto, At, HealthTypes, Calm, Owed, Pending, envVars, healthVars
<1>4. QED
  BY <1>2, <1>3

\* An attempt fails for the service's other client only, and only the loop's.
LEMMA ConnectIsCalm ==
  ASSUME OneDiagnostic, CalmInv, ~broken, NEW a \in Actor, Connect(a) \/ ConnectFails(a)
  PROVE  Calm'
<1>1. Calm /\ HealthTypes /\ HolderInv /\ streak \in Nat
  BY DEF CalmInv, HealthTypes
<1>2. CASE Connect(a)
  BY <1>1, <1>2, Actors
     DEF Connect, Goto, At, HealthTypes, Calm, Owed, Pending, envVars, healthVars
<1>3. CASE ConnectFails(a)
  <2>1. /\ holder # Nil /\ GivesUpOn(a, holder) /\ pc[a] = "connect"
        /\ \E o \in GivenUp(a) : Result(a, o)
    BY <1>1, <1>3 DEF ConnectFails, Calm, At
  <2>2. a = Live /\ holder = Lone
    BY <1>1, <2>1, Actors DEF GivesUpOn, HealthTypes
  <2>3. pc[Lone] = "capture" /\ flag
    BY <1>1, <2>2, Actors DEF HolderInv
  <2>4. Result(Live, "transient")
    BY <2>1, <2>2, <2>3 DEF GivenUp
  <2>5. UNCHANGED <<service, state, streak, seen>>
    BY <1>3 DEF ConnectFails, envVars, healthVars
  <2>6. QED
    BY <1>1, <2>1, <2>2, <2>3, <2>4, <2>5, Actors
       DEF Result, Goto, HealthTypes, Calm, Owed, Pending
<1>4. QED
  BY <1>2, <1>3

LEMMA ServedIsCalm ==
  ASSUME OneDiagnostic, CalmInv, ~broken, NEW a \in Actor, Served(a) \/ CaptureLost(a)
  PROVE  Calm'
<1>1. Calm /\ HealthTypes /\ streak \in Nat
  BY DEF CalmInv, HealthTypes
<1>2. pc[a] = "capture" /\ Result(a, "ok") /\ UNCHANGED <<service, state, streak, seen>>
  BY <1>1 DEF Served, CaptureLost, Calm, At, envVars, healthVars
<1>3. QED
  BY <1>1, <1>2, Actors DEF Result, Goto, HealthTypes, Calm, Owed, Pending

LEMMA CountIsCalm ==
  ASSUME OneDiagnostic, CalmInv, ~broken, NEW a \in Actor, Count(a)
  PROVE  Calm'
<1>1. Calm /\ HealthTypes /\ streak \in Nat
  BY DEF CalmInv, HealthTypes
<1>2. /\ pc[a] = "count" /\ pc' = [pc EXCEPT ![a] = "store"]
      /\ streak' = Counted(a, streak) /\ seen' = [seen EXCEPT ![a] = streak']
      /\ UNCHANGED <<service, state, outcome>>
  BY DEF Count, At, Goto, envVars
<1>3. CASE a = Lone
  <2>1. streak' = 0
    BY <1>1, <1>2, <1>3 DEF Counted, Calm
  <2>2. QED
    BY <1>1, <1>2, <1>3, <2>1, Actors DEF HealthTypes, Calm, Owed, Pending
<1>4. CASE a = Live /\ outcome[Live] = "ok"
  <2>1. streak' = 0
    BY <1>2, <1>4 DEF Counted
  <2>2. QED
    BY <1>1, <1>2, <1>4, <2>1, Actors DEF HealthTypes, Calm, Owed, Pending
<1>5. CASE a = Live /\ outcome[Live] = "transient"
  <2>1. pc[Live] = "count" /\ pc'[Live] = "store" /\ pc'[Lone] = pc[Lone]
    BY <1>1, <1>2, <1>5, Actors DEF HealthTypes
  <2>2. Pending' <=> Pending
    BY <2>1 DEF Pending
  <2>3. Owed = 1
    BY <1>5, <2>1 DEF Owed
  <2>4. Owed' = 0
    BY <2>1 DEF Owed
  <2>5. streak <= 1
    BY <1>1, <2>3 DEF Calm
  <2>6. streak' = streak + 1
    BY <1>1, <1>2, <1>5, <2>5, Actors DEF Counted
  <2>7. QED
    BY <1>1, <1>2, <1>5, <2>2, <2>3, <2>4, <2>5, <2>6, Actors DEF HealthTypes, Calm
<1>6. QED
  BY <1>1, <1>3, <1>4, <1>5, Actors DEF Calm

LEMMA StoreIsCalm ==
  ASSUME OneDiagnostic, CalmInv, ~broken, NEW a \in Actor, Store(a)
  PROVE  Calm'
<1>1. Calm /\ HealthTypes /\ streak \in Nat
  BY DEF CalmInv, HealthTypes
<1>2. Decide(outcome[a], seen[a]) = "ok"
  BY <1>1, Actors DEF Calm, Decide, HealthTypes
<1>3. /\ pc[a] = "store" /\ pc' = [pc EXCEPT ![a] = "finish"]
      /\ seen' = [seen EXCEPT ![a] = 0] /\ outcome' = [outcome EXCEPT ![a] = "ok"]
      /\ state' = "ok" /\ UNCHANGED <<service, streak>>
  BY <1>2 DEF Store, At, Goto, envVars
<1>4. QED
  BY <1>1, <1>3, Actors DEF HealthTypes, Calm, Owed, Pending

LEMMA CalmKept == ASSUME OneDiagnostic, CalmInv, [Next]_vars PROVE CalmInv'
<1>1. CASE HealthNext
  <2>1. HealthStep
    BY <1>1 DEF HealthNext
  <2>2. HealthTypes' /\ HolderInv'
    BY <2>1, HealthTypesKept, HolderKept DEF CalmInv
  <2>3. ASSUME ~broken' PROVE Calm'
    <3>1. CASE World
      <4>1. ~broken /\ UNCHANGED <<service, healthVars, actorVars>>
        BY <2>3, <3>1 DEF World, GameStarts, GameExits, ServiceTurns
      <4>2. QED
        BY <4>1 DEF CalmInv, Calm, Owed, Pending, healthVars, actorVars
    <3>2. CASE ~World
      <4>1. ~broken
        BY <2>1, <2>3, <3>2
           DEF HealthStep, SeesClosed, ResetStreak, SeesNoSockets, StartsWindow, WindowDone,
               StartDiagnostic, DiagnosticDone, CaptureStep, Connect, ConnectFails, Served,
               CaptureLost, Count, Store, envVars
      <4>2. QED
        BY <2>1, <2>2, <3>2, <4>1, LoopIsCalm, DiagnosticIsCalm, ConnectIsCalm,
           ServedIsCalm, CountIsCalm, StoreIsCalm, Actors DEF HealthStep, CaptureStep
    <3>3. QED
      BY <3>1, <3>2
  <2>4. QED
    BY <2>2, <2>3 DEF CalmInv
<1>2. CASE UNCHANGED bannerVars
  BY <1>2
     DEF CalmInv, HealthTypes, HolderInv, Calm, Owed, Pending, bannerVars, envVars,
         healthVars, actorVars
<1>3. QED
  BY <1>1, <1>2 DEF Next, OverlayNext, CountdownNext, PresenceNext, LogNext, vars

-----------------------------------------------------------------------------
(* The countdown's click *)

LEMMA Truncated ==
  ASSUME NEW n \in Nat
  PROVE  /\ n \div 17280 \in Nat
         /\ 17280 * (n \div 17280) <= n
         /\ n < 17280 * (n \div 17280) + 17280
OBVIOUS

\* Past the bar, or seen from the middle: the same point, within a pixel.
LEMMA PointIsOnTheButton ==
  ASSUME NEW w \in Nat, NEW h \in Nat,
         NEW c, c = 9 * w \/ c = 16 * h, c <= 9 * w, c <= 16 * h
  PROVE  /\ Near(17280 * ClickPoint(w, h)[1] + 260 * c, 8640 * w)
         /\ Near(17280 * ClickPoint(w, h)[2], 8640 * h + 210 * c)
<1> DEFINE X == 700 * c + 960 * (9 * w - c)
           Y == 750 * c + 540 * (16 * h - c)
<1>1. c \in Nat /\ X \in Nat /\ Y \in Nat
  <2>1. 9 * w \in Nat /\ 16 * h \in Nat
    OBVIOUS
  <2>2. c \in Nat /\ 9 * w - c \in Nat /\ 16 * h - c \in Nat
    BY <2>1
  <2>3. QED
    BY <2>2
<1>2. X = 8640 * w - 260 * c /\ Y = 8640 * h + 210 * c
  BY <1>1
<1>3. c = (IF w * 9 < h * 16 THEN w * 9 ELSE h * 16)
  OBVIOUS
<1>4. ClickPoint(w, h) = <<X \div 17280, Y \div 17280>>
  BY <1>3 DEF ClickPoint
<1> HIDE DEF X, Y
<1>5. Near(17280 * (X \div 17280) + 260 * c, 8640 * w)
  BY <1>1, <1>2, Truncated DEF Near
<1>6. Near(17280 * (Y \div 17280), 8640 * h + 210 * c)
  BY <1>1, <1>2, Truncated DEF Near
<1>7. QED
  BY <1>4, <1>5, <1>6

LEMMA ButtonIsFound ==
  ASSUME NEW s \in Nat \X Nat
  PROVE  LET c == CHOOSE n \in {9 * s[1], 16 * s[2]} : n <= 9 * s[1] /\ n <= 16 * s[2]
         IN /\ Near(17280 * ClickPoint(s[1], s[2])[1] + 260 * c, 8640 * s[1])
            /\ Near(17280 * ClickPoint(s[1], s[2])[2], 8640 * s[2] + 210 * c)
<1> DEFINE P(n) == n <= 9 * s[1] /\ n <= 16 * s[2]
           c == CHOOSE n \in {9 * s[1], 16 * s[2]} : P(n)
<1>1. s[1] \in Nat /\ s[2] \in Nat
  OBVIOUS
<1>2. \E n \in {9 * s[1], 16 * s[2]} : P(n)
  BY <1>1
<1>3. c \in {9 * s[1], 16 * s[2]} /\ P(c)
  BY <1>2
<1>4. (c = 9 * s[1] \/ c = 16 * s[2]) /\ c <= 9 * s[1] /\ c <= 16 * s[2]
  BY <1>3
<1> HIDE DEF c
<1>5. /\ Near(17280 * ClickPoint(s[1], s[2])[1] + 260 * c, 8640 * s[1])
      /\ Near(17280 * ClickPoint(s[1], s[2])[2], 8640 * s[2] + 210 * c)
  BY <1>1, <1>4, PointIsOnTheButton
<1>6. QED
  BY <1>5 DEF c

\* The target is the game's, unless it names no owner.
Ours == Proc[target] = Game \/ (IF Windows THEN unsure ELSE target \notin Named)

Before == {"idle", "find", "owner", "focus", "check", "recheck", "place", "verify", "press"}
Aimed  == {"focus", "check", "recheck", "place", "verify", "press", "release"}
Placed == {"verify", "press", "release"}

ClickInv ==
  /\ os \in Systems
  /\ {refused, pressed, lifted, stolen} \subseteq BOOLEAN
  /\ at # "over" => answer = "none"
  /\ at \in Before => ~pressed
  /\ at = "owner" => Windows
  /\ at \in Placed \/ pressed => OnTheButton
  /\ at \in Aimed \/ pressed => Ours
  /\ Windows /\ at = "press" => stolen \/ InFront
  /\ at = "release" /\ ~refused => pressed
  /\ ClickIsTheGames

\* Before the point is placed nothing is pressed, and there is only the target to mind.
LEMMA NothingPlaced ==
  ASSUME os' = os, os \in Systems,
         refused' \in BOOLEAN, lifted' \in BOOLEAN, stolen' \in BOOLEAN,
         pressed' = FALSE, at' \notin Placed, at' # "over" => answer' = "none",
         answer' # "clicked", at' = "owner" => Windows, at' \in Aimed => Ours'
  PROVE  ClickInv'
<1>1. ClickIsTheGames'
  BY DEF ClickIsTheGames
<1>2. Windows' <=> Windows
  BY DEF Windows
<1>3. at' # "press" /\ at' # "release"
  BY DEF Placed
<1>4. (at' \in Before => ~pressed') /\ (at' \in Placed \/ pressed' => OnTheButton')
  OBVIOUS
<1>5. QED
  BY <1>1, <1>2, <1>3, <1>4 DEF ClickInv

LEMMA ClickStart == ASSUME Init PROVE ClickInv
<1>1. /\ os \in Systems /\ at = "idle" /\ answer = "none"
      /\ refused = FALSE /\ pressed = FALSE /\ lifted = FALSE /\ stolen = FALSE
  BY DEF Init, CountdownInit, NoClick
<1>2. ClickIsTheGames
  BY <1>1 DEF ClickIsTheGames
<1>3. QED
  BY <1>1, <1>2 DEF ClickInv, Before, Aimed, Placed

LEMMA FindingKept ==
  ASSUME ClickInv, os' = os,
         \/ CallRiseAnchor \/ FindWindow \/ NoX11 \/ CheckOwner
         \/ Focus \/ CheckFront \/ RecheckFront
  PROVE  ClickInv'
<1>1. /\ os \in Systems /\ {refused, lifted, stolen} \subseteq BOOLEAN
      /\ at # "over" => answer = "none"
      /\ at \in Before => ~pressed
      /\ pressed \in BOOLEAN
      /\ at = "owner" => Windows
      /\ at \in Aimed => Ours
  BY DEF ClickInv
<1>2. UNCHANGED <<refused, lifted, stolen, pressed>>
  BY DEF CallRiseAnchor, FindWindow, NoX11, CheckOwner, Focus, CheckFront, RecheckFront,
         pressVars
<1>3. at \in Before
  BY DEF CallRiseAnchor, FindWindow, NoX11, CheckOwner, Focus, CheckFront, RecheckFront,
         Before
<1>4. pressed' = FALSE
  BY <1>1, <1>2, <1>3
<1>5. /\ at' \notin Placed /\ answer' # "clicked"
      /\ at' # "over" => answer' = "none"
  <2>1. at # "over" /\ answer = "none"
    BY <1>1, <1>3 DEF Before
  <2>2. QED
    BY <2>1
       DEF CallRiseAnchor, FindWindow, NoX11, CheckOwner, Focus, CheckFront, RecheckFront,
           Go, End, Placed
<1>6. at' = "owner" => Windows
  BY DEF CallRiseAnchor, FindWindow, NoX11, CheckOwner, Focus, CheckFront, RecheckFront,
         Go, End
<1>7. at' \in Aimed => Ours'
  <2>1. CASE FindWindow /\ Linux
    <3>1. ~Windows /\ ~Windows'
      BY <2>1 DEF Linux, Windows
    <3>2. at' \in Aimed => IsGame(target')
      BY <2>1, <3>1 DEF FindWindow, Go, End, Aimed
    <3>3. QED
      BY <3>1, <3>2 DEF IsGame, Ours
  <2>2. CASE CallRiseAnchor \/ NoX11 \/ (FindWindow /\ ~Linux)
    <3>1. ~Linux => Windows
      BY <1>1 DEF Systems, Linux, Windows
    <3>2. QED
      BY <2>2, <3>1 DEF CallRiseAnchor, NoX11, FindWindow, Go, End, Aimed
  <2>3. CASE CheckOwner
    <3>1. Windows'
      BY <1>1, <2>3 DEF CheckOwner, Windows
    <3>2. at' \in Aimed => Proc[target'] = Game \/ unsure'
      BY <2>3 DEF CheckOwner, Go, End, Aimed
    <3>3. QED
      BY <3>1, <3>2 DEF Ours
  <2>4. CASE Focus \/ CheckFront \/ RecheckFront
    <3>1. at \in Aimed /\ UNCHANGED <<target, unsure>>
      BY <2>4 DEF Focus, CheckFront, RecheckFront, Aimed, aimVars
    <3>2. Ours' <=> Ours
      BY <3>1 DEF Ours, Windows
    <3>3. QED
      BY <1>1, <3>1, <3>2
  <2>5. QED
    BY <2>1, <2>2, <2>3, <2>4
<1>8. refused' \in BOOLEAN /\ lifted' \in BOOLEAN /\ stolen' \in BOOLEAN
  BY <1>1, <1>2
<1>9. QED
  BY <1>1, <1>4, <1>5, <1>6, <1>7, <1>8, NothingPlaced

LEMMA StealKept == ASSUME ClickInv, os' = os, Steal PROVE ClickInv'
<1>1. /\ stolen' = TRUE /\ at # "over"
      /\ UNCHANGED <<at, target, unsure, size, point, refused, answer, pressed, landed, lifted>>
  BY DEF Steal, aimVars, spotVars, pressVars
<1>2. /\ OnTheButton' <=> OnTheButton
      /\ Ours' <=> Ours
      /\ Windows' <=> Windows
  BY <1>1 DEF OnTheButton, Ours, Windows
<1>3. answer' = "none"
  BY <1>1 DEF ClickInv
<1>4. ClickIsTheGames'
  BY <1>1, <1>2, <1>3 DEF ClickInv, ClickIsTheGames, Ours
<1>5. QED
  BY <1>1, <1>2, <1>4 DEF ClickInv

LEMMA PlaceKept == ASSUME ClickInv, os' = os, Place PROVE ClickInv'
<1>1. /\ at = "place" /\ ~pressed /\ answer = "none" /\ Ours /\ os \in Systems
      /\ {refused, pressed, lifted, stolen} \subseteq BOOLEAN
  BY DEF Place, ClickInv, Before, Aimed
<1>2. UNCHANGED <<target, unsure, pressed, lifted, stolen>>
  BY DEF Place, aimVars, pressVars
<1>3. (Ours' <=> Ours) /\ (Windows' <=> Windows)
  BY <1>2 DEF Ours, Windows
<1>4. CASE End(CannotPlace) /\ UNCHANGED <<spotVars, refused>>
  BY <1>1, <1>2, <1>3, <1>4, NothingPlaced DEF End, CannotPlace, Placed, Aimed
<1>5. CASE /\ size' \in Sizes
           /\ point' = ClickPoint(size'[1], size'[2])
           /\ refused' \in (IF Windows THEN BOOLEAN ELSE {FALSE})
           /\ Go(IF Windows THEN "verify" ELSE "press")
  <2>1. /\ size' \in Sizes /\ point' = ClickPoint(size'[1], size'[2])
        /\ refused' \in BOOLEAN /\ answer' = answer
        /\ at' = (IF Windows THEN "verify" ELSE "press")
    BY <1>5 DEF Go
  <2>2. OnTheButton'
    <3>1. size' \in Nat \X Nat
      BY <2>1, CountdownAssumption
    <3>2. QED
      BY <2>1, <3>1, ButtonIsFound DEF OnTheButton
  <2>3. ClickIsTheGames'
    BY <1>1, <1>2, <2>1 DEF ClickIsTheGames
  <2>4. ~(Windows' /\ at' = "press") /\ at' # "owner" /\ at' # "release" /\ at' # "over"
    BY <1>3, <2>1
  <2>5. {refused', pressed', lifted', stolen'} \subseteq BOOLEAN /\ ~pressed'
    BY <1>1, <1>2, <2>1
  <2>6. QED
    BY <1>1, <1>3, <2>1, <2>2, <2>3, <2>4, <2>5 DEF ClickInv
<1>6. QED
  BY <1>4, <1>5 DEF Place

LEMMA VerifyKept == ASSUME ClickInv, os' = os, VerifyFront PROVE ClickInv'
<1>1. /\ at = "verify" /\ ~pressed /\ answer = "none" /\ Ours /\ OnTheButton
      /\ os \in Systems /\ {refused, pressed, lifted, stolen} \subseteq BOOLEAN
  BY DEF VerifyFront, ClickInv, Before, Aimed, Placed
<1>2. UNCHANGED <<target, unsure, size, point, fg, refused, pressed, lifted>>
  BY DEF VerifyFront, aimVars, spotVars, pressVars
<1>3. /\ OnTheButton' <=> OnTheButton
      /\ Ours' <=> Ours
      /\ Windows' <=> Windows
      /\ InFront' <=> InFront
  BY <1>2 DEF OnTheButton, Ours, Windows, InFront
<1>4. ~InFront => at' = "over" /\ answer' = "injection-rejected" /\ stolen' = stolen
  BY DEF VerifyFront, End
<1>5. InFront => at' = "press" /\ answer' = "none" /\ stolen' = FALSE
  BY <1>1 DEF VerifyFront, Go
<1>6. ClickIsTheGames'
  BY <1>1, <1>2, <1>4, <1>5 DEF ClickIsTheGames
<1>7. QED
  BY <1>1, <1>2, <1>3, <1>4, <1>5, <1>6 DEF ClickInv, Before, Aimed, Placed

LEMMA PressKept == ASSUME ClickInv, os' = os, Press PROVE ClickInv'
<1>1. /\ at = "press" /\ ~pressed /\ answer = "none" /\ Ours /\ OnTheButton
      /\ os \in Systems /\ {refused, pressed, lifted, stolen} \subseteq BOOLEAN
      /\ Windows => stolen \/ InFront
  BY DEF Press, ClickInv, Before, Aimed, Placed
<1>2. UNCHANGED <<target, unsure, size, point, fg, stolen, lifted>>
  BY DEF Press, aimVars, spotVars
<1>3. /\ OnTheButton' <=> OnTheButton
      /\ Ours' <=> Ours
      /\ Windows' <=> Windows
  BY <1>2 DEF OnTheButton, Ours, Windows
<1>4. CASE pressed' = TRUE /\ landed' = fg /\ Go("release") /\ UNCHANGED refused
  <2>1. Windows' => stolen' \/ (landed' # NoWindow /\ Proc[landed'] = Proc[target'])
    BY <1>1, <1>2, <1>3, <1>4 DEF InFront
  <2>2. ClickIsTheGames'
    BY <1>1, <1>3, <1>4, <2>1 DEF ClickIsTheGames, Go, Ours
  <2>3. QED
    BY <1>1, <1>2, <1>3, <1>4, <2>2 DEF ClickInv, Go, Before
<1>5. CASE /\ pressed' = pressed /\ refused' = TRUE
           /\ (at' = "release" /\ answer' = answer) \/ (at' = "over" /\ answer' = "failed")
  <2>1. ClickIsTheGames'
    BY <1>1, <1>5 DEF ClickIsTheGames
  <2>2. QED
    BY <1>1, <1>2, <1>3, <1>5, <2>1 DEF ClickInv, Before
<1>6. QED
  BY <1>4, <1>5 DEF Press, Go, End

LEMMA ReleaseKept == ASSUME ClickInv, os' = os, Release PROVE ClickInv'
<1>1. /\ at = "release" /\ answer = "none" /\ Ours /\ OnTheButton
      /\ os \in Systems /\ {refused, pressed, lifted, stolen} \subseteq BOOLEAN
      /\ ~refused => pressed
  BY DEF Release, ClickInv, Aimed, Placed
<1>2. UNCHANGED <<target, unsure, size, point, pressed, landed, stolen>>
  BY DEF Release, aimVars, spotVars
<1>3. /\ OnTheButton' <=> OnTheButton
      /\ Ours' <=> Ours
      /\ Windows' <=> Windows
  BY <1>2 DEF OnTheButton, Ours, Windows
<1>4. /\ at' = "over" /\ {lifted', refused'} \subseteq BOOLEAN
      /\ answer' \in {"clicked", "injection-rejected", "failed"}
      /\ answer' = "clicked" => lifted' /\ ~refused' /\ ~refused
  BY <1>1 DEF Release, End, CannotPlace
<1>5. ClickIsTheGames'
  BY <1>1, <1>2, <1>3, <1>4 DEF ClickInv, ClickIsTheGames, Ours
<1>6. QED
  BY <1>1, <1>2, <1>3, <1>4, <1>5 DEF ClickInv, Before, Aimed, Placed

LEMMA AnswerKept == ASSUME ClickInv, os' = os, Answer PROVE ClickInv'
<1>1. /\ at' = "idle" /\ answer' = "none" /\ pressed' = FALSE
      /\ refused' \in BOOLEAN /\ lifted' \in BOOLEAN /\ stolen' \in BOOLEAN
      /\ os \in Systems
  BY DEF Answer, ClickInv
<1>2. QED
  BY <1>1, NothingPlaced DEF Placed, Aimed

LEMMA ClickKept == ASSUME ClickInv, [Next]_vars PROVE ClickInv'
<1>1. CASE CountdownNext /\ ~(Poke \/ JingleEnds)
  BY <1>1, FindingKept, StealKept, PlaceKept, VerifyKept, PressKept, ReleaseKept, AnswerKept
     DEF CountdownNext, CountdownStep
<1>2. CASE UNCHANGED <<os, clickVars>>
  BY <1>2
     DEF ClickInv, ClickIsTheGames, OnTheButton, Ours, Windows, InFront,
         clickVars, aimVars, spotVars, pressVars
<1>3. QED
  BY <1>1, <1>2
     DEF Next, HealthNext, OverlayNext, CountdownNext, PresenceNext, LogNext, Poke,
         JingleEnds, vars, countdownVars

\* Where the click goes is a point of the screen.
LEMMA PointIsAPoint ==
  ASSUME NEW w \in Nat, NEW h \in Nat
  PROVE  ClickPoint(w, h) \in Nat \X Nat
<1> DEFINE c == IF w * 9 < h * 16 THEN w * 9 ELSE h * 16
           X == 700 * c + 960 * (9 * w - c)
           Y == 750 * c + 540 * (16 * h - c)
<1>1. X \in Nat /\ Y \in Nat
  <2>1. c \in Nat /\ 9 * w - c \in Nat /\ 16 * h - c \in Nat
    OBVIOUS
  <2>2. QED
    BY <2>1
<1>2. ClickPoint(w, h) = <<X \div 17280, Y \div 17280>>
  BY DEF ClickPoint
<1> HIDE DEF X, Y
<1>3. QED
  BY <1>1, <1>2, Truncated

ClickTypes ==
  /\ at \in {"idle", "find", "owner", "focus", "check", "recheck", "place", "verify",
             "press", "release", "over"}
  /\ answer \in Outcome

WindowTypes ==
  /\ open \subseteq Window /\ {target, fg, landed} \subseteq Window \cup {NoWindow}

PressTypes ==
  /\ {unsure, refused, pressed, stolen, lifted} \subseteq BOOLEAN
  /\ size \in Sizes \cup {<<0, 0>>} /\ point \in Nat \X Nat

\* One jingle at a time: the flag says whether it plays.
SoundTypes == ringing \in BOOLEAN /\ jingles = IF ringing THEN 1 ELSE 0

CountdownTypes == ClickTypes /\ WindowTypes /\ PressTypes /\ SoundTypes

LEMMA ClickTypesKept == ASSUME ClickTypes, CountdownStep PROVE ClickTypes'
<1>1. at' = at \/ at' \in {"idle", "find", "owner", "focus", "check", "recheck", "place",
                           "verify", "press", "release", "over"}
  BY DEF CountdownStep, CallRiseAnchor, FindWindow, NoX11, CheckOwner, Focus, CheckFront,
         RecheckFront, Steal, Place, VerifyFront, Press, Release, Answer, Poke, JingleEnds,
         Go, End, clickVars
<1>2. answer' = answer \/ answer' \in Outcome
  BY DEF CountdownStep, CallRiseAnchor, FindWindow, NoX11, CheckOwner, Focus, CheckFront,
         RecheckFront, Steal, Place, VerifyFront, Press, Release, Answer, Poke, JingleEnds,
         Go, End, CannotPlace, Outcome, clickVars
<1>3. QED
  BY <1>1, <1>2 DEF ClickTypes

LEMMA WindowTypesKept == ASSUME WindowTypes, CountdownStep PROVE WindowTypes'
<1>1. CASE CallRiseAnchor
  BY <1>1 DEF CallRiseAnchor, WindowTypes, pressVars
<1>2. CASE FindWindow
  <2>1. UNCHANGED <<open, fg, landed>>
    BY <1>2 DEF FindWindow, pressVars
  <2>2. target' = target \/ target' \in open
    BY <1>2 DEF FindWindow
  <2>3. QED
    BY <2>1, <2>2 DEF WindowTypes
<1>3. CASE Focus \/ CheckFront
  BY <1>3 DEF Focus, CheckFront, WindowTypes, aimVars, pressVars
<1>4. CASE Steal
  BY <1>4 DEF Steal, WindowTypes, aimVars, pressVars
<1>5. CASE Press
  BY <1>5 DEF Press, WindowTypes, aimVars
<1>6. CASE Answer
  BY <1>6 DEF Answer, WindowTypes
<1>7. CASE UNCHANGED <<open, target, fg, landed>>
  BY <1>7 DEF WindowTypes
<1>8. QED
  BY <1>1, <1>2, <1>3, <1>4, <1>5, <1>6, <1>7
     DEF CountdownStep, NoX11, CheckOwner, RecheckFront, Place, VerifyFront, Release,
         Poke, JingleEnds, clickVars, aimVars, pressVars

LEMMA PressTypesKept == ASSUME PressTypes, CountdownStep PROVE PressTypes'
<1>1. CASE Place
  <2>1. /\ UNCHANGED <<unsure, pressed, stolen, lifted>>
        /\ refused' = refused \/ refused' \in BOOLEAN
    BY <1>1 DEF Place, aimVars, pressVars
  <2>2. \/ UNCHANGED <<size, point>>
        \/ size' \in Sizes /\ point' = ClickPoint(size'[1], size'[2])
    BY <1>1 DEF Place, spotVars
  <2>3. size' \in Sizes \cup {<<0, 0>>} /\ point' \in Nat \X Nat
    <3>1. CASE UNCHANGED <<size, point>>
      BY <3>1 DEF PressTypes
    <3>2. CASE size' \in Sizes /\ point' = ClickPoint(size'[1], size'[2])
      <4>1. size'[1] \in Nat /\ size'[2] \in Nat
        BY <3>2, CountdownAssumption
      <4>2. QED
        BY <3>2, <4>1, PointIsAPoint
    <3>3. QED
      BY <2>2, <3>1, <3>2
  <2>4. QED
    BY <2>1, <2>3 DEF PressTypes
<1>2. CASE CheckOwner \/ Steal \/ VerifyFront \/ Press \/ Release
  <2>1. UNCHANGED <<size, point>>
    BY <1>2 DEF CheckOwner, Steal, VerifyFront, Press, Release, spotVars
  <2>2. {unsure, refused, pressed, stolen, lifted} \subseteq BOOLEAN
    BY DEF PressTypes
  <2>3. {unsure', refused', pressed', stolen', lifted'} \subseteq BOOLEAN
    BY <1>2, <2>2
       DEF CheckOwner, Steal, VerifyFront, Press, Release, aimVars, pressVars
  <2>4. QED
    BY <2>1, <2>3 DEF PressTypes
<1>3. CASE Answer
  <2>1. <<0, 0>> \in Nat \X Nat
    OBVIOUS
  <2>2. QED
    BY <1>3, <2>1 DEF Answer, PressTypes
<1>4. CASE UNCHANGED <<unsure, refused, pressed, stolen, lifted, size, point>>
  BY <1>4 DEF PressTypes
<1>5. QED
  BY <1>1, <1>2, <1>3, <1>4
     DEF CountdownStep, CallRiseAnchor, FindWindow, NoX11, Focus, CheckFront, RecheckFront,
         Poke, JingleEnds, clickVars, aimVars, spotVars, pressVars

LEMMA SoundTypesKept == ASSUME SoundTypes, CountdownStep PROVE SoundTypes'
<1>1. CASE Poke \/ JingleEnds
  <2>1. (ringing = TRUE /\ jingles = 1) \/ (ringing = FALSE /\ jingles = 0)
    BY DEF SoundTypes
  <2>2. (ringing' = TRUE /\ jingles' = 1) \/ (ringing' = FALSE /\ jingles' = 0)
    BY <1>1, <2>1 DEF Poke, JingleEnds
  <2>3. QED
    BY <2>2 DEF SoundTypes
<1>2. CASE UNCHANGED soundVars
  BY <1>2 DEF soundVars, SoundTypes
<1>3. QED
  BY <1>1, <1>2
     DEF CountdownStep, CallRiseAnchor, FindWindow, NoX11, CheckOwner, Focus, CheckFront,
         RecheckFront, Steal, Place, VerifyFront, Press, Release, Answer

LEMMA CountdownTypesStart == ASSUME CountdownInit PROVE CountdownTypes
<1>1. <<0, 0>> \in Nat \X Nat
  OBVIOUS
<1>2. QED
  BY <1>1
     DEF CountdownInit, NoClick, CountdownTypes, ClickTypes, WindowTypes, PressTypes,
         SoundTypes, Outcome

LEMMA CountdownIsTyped == ASSUME CountdownTypes PROVE CountdownTypeOK
<1>1. jingles \in 0..1
  BY DEF CountdownTypes, SoundTypes
<1>2. QED
  BY <1>1
     DEF CountdownTypes, ClickTypes, WindowTypes, PressTypes, SoundTypes, CountdownTypeOK

-----------------------------------------------------------------------------
(* The log files *)

File == [name : Name, lines : Seq(1..MaxLine)]

Size(fs, i)    == Len(fs[i].lines)
Line(fs, i, j) == fs[i].lines[j]

\* The number of the last line before the file at i, of w lines written.
Prior(fs, w, i) == IF Size(fs, i) = 0 THEN w ELSE Line(fs, i, 1) - 1

\* The name at i: the last file is being written, and each rotation gave the next
\* number.
NameAt(fs, t, i) == IF i = Len(fs) THEN 0 ELSE t - Len(fs) + 1 + i

\* The files hold the last of the w lines written, without a gap, after t
\* rotations; only the last file may be empty.
FilesOk(fs, w, t) ==
  /\ fs \in Seq(File) /\ Len(fs) >= 1 /\ w \in Nat /\ t \in Nat /\ w <= MaxLine
  /\ Len(fs) <= t + 1 /\ t + Size(fs, Len(fs)) <= w
  /\ \A i \in 1..Len(fs) :
       /\ Size(fs, i) \in Nat /\ Prior(fs, w, i) \in Nat
       /\ fs[i].name = NameAt(fs, t, i)
       /\ i # Len(fs) => Size(fs, i) >= 1
       /\ \A j \in 1..Size(fs, i) : Line(fs, i, j) = Prior(fs, w, i) + j
  /\ \A i \in 1..(Len(fs) - 1) : Prior(fs, w, i + 1) = Prior(fs, w, i) + Size(fs, i)
  /\ \A i, k \in 1..Len(fs) : i < k => Prior(fs, w, i) + Size(fs, i) <= Prior(fs, w, k)
  /\ Prior(fs, w, Len(fs)) + Size(fs, Len(fs)) = w

\* A line more.
LEMMA WrittenOk ==
  ASSUME NEW fs, NEW w, NEW t, FilesOk(fs, w, t), w < MaxLine,
         NEW gs, gs = [fs EXCEPT ![Len(fs)].lines = Append(@, w + 1)]
  PROVE  /\ FilesOk(gs, w + 1, t) /\ Len(gs) = Len(fs)
         /\ \A i \in 1..Len(fs) : /\ gs[i].name = fs[i].name
                                  /\ Prior(gs, w + 1, i) = Prior(fs, w, i)
                                  /\ i # Len(fs) => Size(gs, i) = Size(fs, i)
<1> DEFINE L == Len(fs)
           e == [name |-> fs[L].name, lines |-> Append(fs[L].lines, w + 1)]
<1>1. /\ fs \in Seq(File) /\ L >= 1 /\ w \in Nat /\ t \in Nat
      /\ L <= t + 1 /\ t + Size(fs, L) <= w
      /\ Prior(fs, w, L) + Size(fs, L) = w
  BY DEF FilesOk
<1>2. L \in Nat
  BY <1>1, LenProperties
<1>3. fs[L] \in File /\ fs[L].name \in Name /\ fs[L].lines \in Seq(1..MaxLine)
  <2>1. L \in 1..Len(fs)
    BY <1>1, <1>2
  <2>2. fs[L] \in File
    <3> HIDE DEF L
    <3>1. QED
      BY <1>1, <2>1, ElementOfSeq
  <2>3. QED
    BY <2>2 DEF File
<1>4. /\ Append(fs[L].lines, w + 1) \in Seq(1..MaxLine)
      /\ Len(Append(fs[L].lines, w + 1)) = Size(fs, L) + 1
      /\ \A j \in 1..Size(fs, L) : Append(fs[L].lines, w + 1)[j] = Line(fs, L, j)
      /\ Append(fs[L].lines, w + 1)[Size(fs, L) + 1] = w + 1
  <2>1. w + 1 \in 1..MaxLine
    BY <1>1, LogAssumption
  <2> HIDE DEF L
  <2>2. QED
    BY <1>3, <2>1, AppendProperties DEF Size, Line
<1>5. e \in File
  BY <1>3, <1>4 DEF File
<1>6. gs = [fs EXCEPT ![L] = e]
  <2>1. [fs[L] EXCEPT !.lines = Append(fs[L].lines, w + 1)] = e
    <3>1. PICK n \in Name, s \in Seq(1..MaxLine) : fs[L] = [name |-> n, lines |-> s]
      BY <1>3 DEF File
    <3> DEFINE a == Append(fs[L].lines, w + 1)
    <3> HIDE DEF L, a
    <3>2. [fs[L] EXCEPT !.lines = a] = [name |-> fs[L].name, lines |-> a]
      BY <3>1
    <3>3. QED
      BY <3>2 DEF a
  <2>2. gs = [fs EXCEPT ![L] = [fs[L] EXCEPT !.lines = Append(fs[L].lines, w + 1)]]
    OBVIOUS
  <2> HIDE DEF e, L
  <2>3. QED
    BY <2>1, <2>2
<1>7. /\ gs \in Seq(File) /\ Len(gs) = L
      /\ \A i \in 1..L : gs[i] = IF i = L THEN e ELSE fs[i]
  <2>1. L \in 1..Len(fs)
    BY <1>1, <1>2
  <2> HIDE DEF e, L
  <2>2. L = Len(fs)
    BY DEF L
  <2>3. gs \in Seq(File) /\ Len(gs) = Len(fs)
        /\ \A i \in 1..Len(fs) : gs[i] = IF i = L THEN e ELSE fs[i]
    <3> DEFINE r == [fs EXCEPT ![L] = e]
    <3>1. r \in Seq(File) /\ Len(r) = Len(fs)
      BY <1>1, <1>5, <2>1, ExceptSeq
    <3>2. \A i \in 1..Len(fs) : r[i] = IF i = L THEN e ELSE fs[i]
      BY <1>1, <1>5, <2>1, ExceptSeq
    <3>3. gs = r
      BY <1>6
    <3> HIDE DEF r
    <3>4. QED
      BY <3>1, <3>2, <3>3
  <2>4. QED
    BY <2>2, <2>3
<1> HIDE DEF L
<1>8. \A i \in 1..L :
        /\ i # L => Size(gs, i) = Size(fs, i) /\ \A j : Line(gs, i, j) = Line(fs, i, j)
        /\ gs[i].name = fs[i].name
  BY <1>7 DEF Size, Line
<1>9. /\ Size(gs, L) = Size(fs, L) + 1
      /\ \A j \in 1..Size(fs, L) : Line(gs, L, j) = Line(fs, L, j)
      /\ Line(gs, L, Size(fs, L) + 1) = w + 1
  <2>1. gs[L].lines = Append(fs[L].lines, w + 1)
    BY <1>1, <1>2, <1>7
  <2>2. QED
    BY <1>4, <2>1 DEF Size, Line
<1>10. \A i \in 1..L :
         /\ Size(fs, i) \in Nat /\ Prior(fs, w, i) \in Nat
         /\ fs[i].name = NameAt(fs, t, i)
         /\ i # L => Size(fs, i) >= 1
         /\ \A j \in 1..Size(fs, i) : Line(fs, i, j) = Prior(fs, w, i) + j
  BY DEF FilesOk, L
<1>11. \A i \in 1..L : Prior(gs, w + 1, i) = Prior(fs, w, i)
  <2>1. ASSUME NEW i \in 1..L, i # L PROVE Prior(gs, w + 1, i) = Prior(fs, w, i)
    <3>1. Size(fs, i) # 0 /\ Size(gs, i) # 0
      <4>1. Size(gs, i) = Size(fs, i)
        BY <1>8, <2>1
      <4>2. Size(fs, i) \in Nat /\ Size(fs, i) >= 1
        BY <1>10, <2>1
      <4>3. QED
        BY <4>1, <4>2
    <3>2. Line(gs, i, 1) = Line(fs, i, 1)
      BY <1>8, <2>1
    <3>3. QED
      BY <3>1, <3>2 DEF Prior
  <2>2. Prior(gs, w + 1, L) = Prior(fs, w, L)
    <3>1. L \in 1..L /\ Size(fs, L) \in Nat
      BY <1>1, <1>2, <1>10
    <3>2. CASE Size(fs, L) = 0
      BY <1>1, <1>9, <3>2 DEF Prior
    <3>3. CASE Size(fs, L) # 0
      <4>1. 1 \in 1..Size(fs, L) /\ Size(fs, L) + 1 # 0
        BY <3>1, <3>3
      <4>2. QED
        BY <1>9, <3>3, <4>1 DEF Prior
    <3>4. QED
      BY <3>2, <3>3
  <2>3. QED
    BY <2>1, <2>2
<1>12. \A i \in 1..L :
         /\ Size(gs, i) \in Nat /\ Prior(gs, w + 1, i) \in Nat
         /\ gs[i].name = NameAt(gs, t, i)
         /\ i # L => Size(gs, i) >= 1
  <2>1. ASSUME NEW i \in 1..L
        PROVE  /\ Size(gs, i) \in Nat /\ Prior(gs, w + 1, i) \in Nat
               /\ i # L => Size(gs, i) >= 1
    <3>1. Size(fs, i) \in Nat /\ Prior(fs, w, i) \in Nat /\ (i # L => Size(fs, i) >= 1)
      BY <1>10
    <3>2. Prior(gs, w + 1, i) = Prior(fs, w, i)
      BY <1>11
    <3>3. CASE i = L
      <4>1. Size(gs, i) = Size(fs, i) + 1
        BY <1>9, <3>3
      <4>2. QED
        BY <3>1, <3>2, <3>3, <4>1
    <3>4. CASE i # L
      <4>1. Size(gs, i) = Size(fs, i)
        BY <1>8, <3>4
      <4>2. QED
        BY <3>1, <3>2, <4>1
    <3>5. QED
      BY <3>3, <3>4
  <2>2. ASSUME NEW i \in 1..L PROVE gs[i].name = NameAt(gs, t, i)
    <3>1. NameAt(gs, t, i) = NameAt(fs, t, i)
      BY <1>7 DEF NameAt, L
    <3>2. gs[i].name = fs[i].name
      <4>1. CASE i = L
        BY <1>7, <4>1
      <4>2. CASE i # L
        BY <1>8, <4>2
      <4>3. QED
        BY <4>1, <4>2
    <3>3. QED
      BY <1>10, <3>1, <3>2
  <2>3. QED
    BY <2>1, <2>2
<1>13. \A i \in 1..L : \A j \in 1..Size(gs, i) : Line(gs, i, j) = Prior(gs, w + 1, i) + j
  <2>1. ASSUME NEW i \in 1..L, i # L, NEW j \in 1..Size(gs, i)
        PROVE  Line(gs, i, j) = Prior(gs, w + 1, i) + j
    BY <1>8, <1>10, <1>11, <2>1
  <2>2. ASSUME NEW j \in 1..Size(gs, L) PROVE Line(gs, L, j) = Prior(gs, w + 1, L) + j
    <3>1. L \in 1..L /\ Size(fs, L) \in Nat /\ Prior(fs, w, L) \in Nat
      BY <1>1, <1>2, <1>10
    <3>2. j \in 1..Size(fs, L) \/ j = Size(fs, L) + 1
      BY <1>9, <3>1
    <3>3. Prior(gs, w + 1, L) = Prior(fs, w, L)
      BY <1>11, <3>1
    <3>4. CASE j \in 1..Size(fs, L)
      <4>1. Line(gs, L, j) = Line(fs, L, j) /\ Line(fs, L, j) = Prior(fs, w, L) + j
        BY <1>9, <1>10, <3>1, <3>4
      <4>2. QED
        BY <3>3, <4>1
    <3>5. CASE j = Size(fs, L) + 1
      <4>1. Line(gs, L, j) = w + 1 /\ w + 1 = Prior(fs, w, L) + j
        BY <1>1, <1>9, <3>1, <3>5
      <4>2. QED
        BY <3>3, <4>1
    <3>6. QED
      BY <3>2, <3>4, <3>5
  <2>3. QED
    BY <2>1, <2>2
<1>14. /\ \A i \in 1..(L - 1) : Prior(fs, w, i + 1) = Prior(fs, w, i) + Size(fs, i)
       /\ \A i, k \in 1..L : i < k => Prior(fs, w, i) + Size(fs, i) <= Prior(fs, w, k)
  BY DEF FilesOk, L
<1>15. \A i \in 1..(L - 1) :
         Prior(gs, w + 1, i + 1) = Prior(gs, w + 1, i) + Size(gs, i)
  <2>1. \A i \in 1..(L - 1) : i \in 1..L /\ i + 1 \in 1..L /\ i # L
    BY <1>2
  <2>2. QED
    BY <1>8, <1>11, <1>14, <2>1
<1>16. \A i, k \in 1..L :
         i < k => Prior(gs, w + 1, i) + Size(gs, i) <= Prior(gs, w + 1, k)
  <2>1. \A i, k \in 1..L : i < k => i # L
    BY <1>2
  <2>2. QED
    BY <1>8, <1>11, <1>14, <2>1
<1>17. /\ t + Size(gs, L) <= w + 1
       /\ Prior(gs, w + 1, L) + Size(gs, L) = w + 1
  <2>1. L \in 1..L /\ Size(fs, L) \in Nat /\ Prior(fs, w, L) \in Nat
    BY <1>1, <1>2, <1>10
  <2>2. Prior(gs, w + 1, L) = Prior(fs, w, L) /\ Size(gs, L) = Size(fs, L) + 1
    BY <1>9, <1>11, <2>1
  <2>3. QED
    BY <1>1, <2>1, <2>2
<1>18. FilesOk(gs, w + 1, t)
  <2>1. Len(gs) >= 1 /\ w + 1 \in Nat /\ Len(gs) <= t + 1 /\ w + 1 <= MaxLine
    BY <1>1, <1>7, LogAssumption
  <2>2. Len(gs) = L
    BY <1>7
  <2>3. \A i \in 1..Len(gs) :
          /\ Size(gs, i) \in Nat /\ Prior(gs, w + 1, i) \in Nat
          /\ gs[i].name = NameAt(gs, t, i)
          /\ i # Len(gs) => Size(gs, i) >= 1
          /\ \A j \in 1..Size(gs, i) : Line(gs, i, j) = Prior(gs, w + 1, i) + j
    BY <1>12, <1>13, <2>2
  <2>4. QED
    BY <1>1, <1>7, <1>15, <1>16, <1>17, <2>1, <2>2, <2>3 DEF FilesOk
<1>19. QED
  BY <1>7, <1>8, <1>11, <1>18 DEF L

\* The files a rotation removes.
Dropped(fs) == IF Len(fs) > KeepSome THEN Len(fs) - KeepSome ELSE 0

Rotated(fs, t) ==
  LET named == [fs EXCEPT ![Len(fs)].name = t + 1]
      all   == Append(named, [name |-> Current, lines |-> <<>>])
  IN SubSeq(all, IF Len(all) > KeepSome + 1 THEN Len(all) - KeepSome ELSE 1, Len(all))

\* A rotation: the file that was written takes its number, and the oldest go.
LEMMA RotatedOk ==
  ASSUME NEW fs, NEW w, NEW t, FilesOk(fs, w, t), Size(fs, Len(fs)) >= 1,
         NEW gs, gs = Rotated(fs, t)
  PROVE  /\ FilesOk(gs, w, t + 1) /\ Dropped(fs) \in 0..Len(fs)
         /\ Len(gs) = Len(fs) + 1 - Dropped(fs)
         /\ \A i \in 1..(Len(fs) - Dropped(fs)) :
              /\ Size(gs, i) = Size(fs, i + Dropped(fs))
              /\ Prior(gs, w, i) = Prior(fs, w, i + Dropped(fs))
              /\ gs[i].name = IF i + Dropped(fs) = Len(fs) THEN t + 1
                              ELSE fs[i + Dropped(fs)].name
<1> DEFINE L == Len(fs)
           d == Dropped(fs)
           e == [name |-> t + 1, lines |-> fs[L].lines]
           named == [fs EXCEPT ![L] = e]
           fresh == [name |-> 0, lines |-> <<>>]
           all == Append(named, fresh)
<1>1. /\ fs \in Seq(File) /\ L >= 1 /\ w \in Nat /\ t \in Nat
      /\ L <= t + 1 /\ t + Size(fs, L) <= w
      /\ Prior(fs, w, L) + Size(fs, L) = w
  BY DEF FilesOk
<1>2. L \in Nat
  BY <1>1, LenProperties
<1>3. L \in 1..Len(fs)
  BY <1>1, <1>2
<1>4. fs[L] \in File /\ fs[L].lines \in Seq(1..MaxLine)
  <2>1. fs[L] \in File
    <3> HIDE DEF L
    <3>1. QED
      BY <1>1, <1>3, ElementOfSeq
  <2>2. QED
    BY <2>1 DEF File
<1>5. e \in File /\ fresh \in File
  <2>1. Size(fs, L) >= 1 /\ Size(fs, L) \in Nat
    BY <1>3 DEF FilesOk
  <2>2. t + 1 \in Name /\ 0 \in Name
    <3>1. w <= MaxLine /\ MaxLine \in Nat
      BY LogAssumption DEF FilesOk
    <3> HIDE DEF L
    <3>2. QED
      BY <1>1, <2>1, <3>1 DEF Name
  <2>3. QED
    BY <1>4, <2>2, EmptySeq DEF File
<1>6. /\ named \in Seq(File) /\ Len(named) = L
      /\ \A i \in 1..L : named[i] = IF i = L THEN e ELSE fs[i]
  <2> HIDE DEF e, L
  <2>1. named \in Seq(File) /\ Len(named) = Len(fs)
    BY <1>1, <1>3, <1>5, ExceptSeq
  <2>2. \A i \in 1..Len(fs) : named[i] = IF i = L THEN e ELSE fs[i]
    BY <1>1, <1>3, <1>5, ExceptSeq
  <2>3. QED
    BY <2>1, <2>2 DEF L
<1>7. /\ all \in Seq(File) /\ Len(all) = L + 1
      /\ \A i \in 1..L : all[i] = named[i]
      /\ all[L + 1] = fresh
  <2> HIDE DEF named, fresh
  <2>1. /\ all \in Seq(File) /\ Len(all) = Len(named) + 1
        /\ \A i \in 1..Len(named) : all[i] = named[i]
        /\ all[Len(named) + 1] = fresh
    BY <1>5, <1>6, AppendProperties
  <2> HIDE DEF all, L
  <2>2. QED
    BY <1>6, <2>1
<1>8. d \in 0..L /\ d \in Nat
  BY <1>1, <1>2, LogAssumption DEF Dropped
<1>9. gs = SubSeq(all, d + 1, L + 1)
  <2>1. gs = SubSeq(all, IF Len(all) > KeepSome + 1 THEN Len(all) - KeepSome ELSE 1, Len(all))
    <3>1. [fs EXCEPT ![L].name = t + 1] = named
      <4>1. [fs[L] EXCEPT !.name = t + 1] = e
        <5>1. PICK n \in Name, s \in Seq(1..MaxLine) : fs[L] = [name |-> n, lines |-> s]
          BY <1>4 DEF File
        <5> HIDE DEF L
        <5>2. QED
          BY <5>1
      <4>2. [fs EXCEPT ![L].name = t + 1] = [fs EXCEPT ![L] = [fs[L] EXCEPT !.name = t + 1]]
        OBVIOUS
      <4> HIDE DEF e, L
      <4>3. QED
        BY <4>1, <4>2
    <3>2. fresh = [name |-> Current, lines |-> <<>>]
      BY LogAssumption
    <3>3. gs = LET nm == [fs EXCEPT ![L].name = t + 1]
                   al == Append(nm, [name |-> Current, lines |-> <<>>])
               IN SubSeq(al, IF Len(al) > KeepSome + 1 THEN Len(al) - KeepSome ELSE 1, Len(al))
      BY DEF Rotated
    <3> HIDE DEF named, fresh, L
    <3>4. QED
      BY <3>1, <3>2, <3>3
  <2>2. (IF L + 1 > KeepSome + 1 THEN L + 1 - KeepSome ELSE 1) = d + 1
    BY <1>2, LogAssumption DEF Dropped
  <2>3. Len(all) = L + 1
    BY <1>7
  <2> HIDE DEF all, L, d
  <2>4. gs = SubSeq(all, IF L + 1 > KeepSome + 1 THEN L + 1 - KeepSome ELSE 1, L + 1)
    BY <1>2, <2>1, <2>3, LogAssumption
  <2>5. QED
    BY <2>2, <2>4
<1> HIDE DEF L, d, e, named, fresh, all
<1>10. \A i \in 1..(L + 1) : all[i] \in File
  BY <1>7, ElementOfSeq
<1>11. /\ gs \in Seq(File) /\ Len(gs) = L + 1 - d
       /\ \A i \in 1..(L + 1 - d) : gs[i] = all[i + d]
  <2>1. \A i \in (d + 1)..(L + 1) : all[i] \in File
    BY <1>2, <1>8, <1>10
  <2>2. d + 1 \in Int /\ L + 1 \in Int
    BY <1>2, <1>8
  <2> DEFINE m == d + 1
             n == L + 1
  <2>3. /\ SubSeq(all, m, n) \in Seq(File)
        /\ Len(SubSeq(all, m, n)) = IF m <= n THEN n - m + 1 ELSE 0
        /\ \A i \in 1..(n - m + 1) : SubSeq(all, m, n)[i] = all[m + i - 1]
    <3>1. m \in Int /\ n \in Int /\ \A i \in m..n : all[i] \in File
      BY <2>1, <2>2
    <3> HIDE DEF m, n
    <3>2. QED
      BY <3>1, SubSeqProperties
  <2>4. m <= n /\ n - m + 1 = L + 1 - d /\ \A i \in 1..(L + 1 - d) : m + i - 1 = i + d
    BY <1>2, <1>8
  <2> HIDE DEF m, n
  <2>5. gs = SubSeq(all, m, n)
    BY <1>9 DEF m, n
  <2>6. Len(gs) = L + 1 - d
    BY <2>3, <2>4, <2>5
  <2>7. \A i \in 1..(L + 1 - d) : gs[i] = all[i + d]
    BY <2>3, <2>4, <2>5
  <2>8. QED
    BY <2>3, <2>5, <2>6, <2>7
<1>12. \A i \in 1..L : /\ Size(fs, i) \in Nat /\ Prior(fs, w, i) \in Nat
                       /\ fs[i].name = NameAt(fs, t, i)
                       /\ Size(fs, i) >= 1
                       /\ \A j \in 1..Size(fs, i) : Line(fs, i, j) = Prior(fs, w, i) + j
  <2>1. \A i \in 1..L : /\ Size(fs, i) \in Nat /\ Prior(fs, w, i) \in Nat
                        /\ fs[i].name = NameAt(fs, t, i)
                        /\ i # L => Size(fs, i) >= 1
                        /\ \A j \in 1..Size(fs, i) : Line(fs, i, j) = Prior(fs, w, i) + j
    BY DEF FilesOk, L
  <2>2. Size(fs, L) >= 1
    BY DEF L
  <2>3. QED
    BY <2>1, <2>2
\* The files that are left, and the new one.
<1>13. ASSUME NEW i \in 1..(L - d)
       PROVE  /\ i + d \in 1..L /\ gs[i].lines = fs[i + d].lines
              /\ gs[i].name = IF i + d = L THEN t + 1 ELSE fs[i + d].name
  <2>1. i + d \in 1..L /\ i \in 1..(L + 1 - d)
    BY <1>2, <1>8
  <2>2. gs[i] = IF i + d = L THEN e ELSE fs[i + d]
    BY <1>6, <1>7, <1>11, <2>1
  <2>3. CASE i + d = L
    <3>1. gs[i] = [name |-> t + 1, lines |-> fs[L].lines]
      BY <2>2, <2>3 DEF e
    <3>2. QED
      BY <2>1, <2>3, <3>1
  <2>4. CASE i + d # L
    BY <2>1, <2>2, <2>4
  <2>5. QED
    BY <2>3, <2>4
<1>14. /\ L + 1 - d \in 1..(L + 1 - d) /\ gs[L + 1 - d].lines = <<>>
       /\ gs[L + 1 - d].name = 0
  <2>1. L + 1 - d \in 1..(L + 1 - d) /\ (L + 1 - d) + d = L + 1
    BY <1>2, <1>8
  <2> DEFINE n == L + 1 - d
  <2>2. gs[n] = [name |-> 0, lines |-> <<>>]
    <3>1. n \in 1..n /\ n + d = L + 1
      BY <2>1
    <3>2. gs[n] = all[n + d]
      BY <1>11, <2>1
    <3> HIDE DEF n
    <3>3. QED
      BY <1>7, <3>1, <3>2 DEF fresh
  <2>3. gs[n].lines = <<>> /\ gs[n].name = 0
    <3> HIDE DEF n
    <3>1. QED
      BY <2>2
  <2>4. QED
    BY <2>1, <2>3
<1>15. ASSUME NEW i \in 1..(L - d)
       PROVE  /\ Size(gs, i) = Size(fs, i + d) /\ Prior(gs, w, i) = Prior(fs, w, i + d)
              /\ \A j \in 1..Size(gs, i) : Line(gs, i, j) = Line(fs, i + d, j)
  BY <1>13 DEF Size, Line, Prior
<1>16. Size(gs, L + 1 - d) = 0 /\ Prior(gs, w, L + 1 - d) = w
  BY <1>14, EmptySeq DEF Size, Prior
<1>17. \A i \in 1..(L + 1 - d) : i \in 1..(L - d) \/ i = L + 1 - d
  BY <1>2, <1>8
<1>18. ASSUME NEW i \in 1..(L + 1 - d)
       PROVE  /\ Size(gs, i) \in Nat /\ Prior(gs, w, i) \in Nat
              /\ gs[i].name = NameAt(gs, t + 1, i)
              /\ i # L + 1 - d => Size(gs, i) >= 1
              /\ \A j \in 1..Size(gs, i) : Line(gs, i, j) = Prior(gs, w, i) + j
  <2>1. CASE i = L + 1 - d
    <3>1. NameAt(gs, t + 1, i) = 0
      BY <1>11, <2>1 DEF NameAt
    <3>2. 1..Size(gs, i) = {}
      BY <1>16, <2>1
    <3>3. gs[i].name = 0
      BY <1>14, <2>1
    <3>4. Size(gs, i) = 0 /\ Prior(gs, w, i) = w /\ w \in Nat
      BY <1>1, <1>16, <2>1
    <3>5. QED
      BY <2>1, <3>1, <3>2, <3>3, <3>4
  <2>2. CASE i \in 1..(L - d)
    <3>1. i + d \in 1..L /\ i # L + 1 - d
      BY <1>2, <1>8, <2>2
    <3>2. NameAt(gs, t + 1, i) = t - L + 1 + (i + d)
      <4>1. NameAt(gs, t + 1, i) = (t + 1) - (L + 1 - d) + 1 + i
        BY <1>11, <3>1 DEF NameAt
      <4>2. QED
        BY <1>1, <1>2, <1>8, <4>1
    <3>3. gs[i].name = t - L + 1 + (i + d)
      <4>1. CASE i + d = L
        <5>1. gs[i].name = t + 1
          BY <1>13, <2>2, <4>1
        <5>2. t - L + 1 + (i + d) = t + 1
          BY <1>1, <1>2, <4>1
        <5>3. QED
          BY <5>1, <5>2
      <4>2. CASE i + d # L
        <5>1. gs[i].name = fs[i + d].name /\ fs[i + d].name = NameAt(fs, t, i + d)
          BY <1>12, <1>13, <2>2, <3>1, <4>2
        <5>2. QED
          BY <4>2, <5>1 DEF NameAt, L
      <4>3. QED
        BY <4>1, <4>2
    <3>4. Size(gs, i) \in Nat /\ Prior(gs, w, i) \in Nat /\ Size(gs, i) >= 1
      BY <1>12, <1>15, <2>2, <3>1
    <3>5. ASSUME NEW j \in 1..Size(gs, i) PROVE Line(gs, i, j) = Prior(gs, w, i) + j
      <4>1. Line(gs, i, j) = Line(fs, i + d, j) /\ Prior(gs, w, i) = Prior(fs, w, i + d)
            /\ j \in 1..Size(fs, i + d)
        BY <1>15, <2>2
      <4>2. Line(fs, i + d, j) = Prior(fs, w, i + d) + j
        BY <1>12, <3>1, <4>1
      <4>3. QED
        BY <4>1, <4>2
    <3>6. QED
      BY <3>1, <3>2, <3>3, <3>4, <3>5
  <2>3. QED
    BY <1>17, <2>1, <2>2
<1>19. /\ \A i \in 1..(L - 1) : Prior(fs, w, i + 1) = Prior(fs, w, i) + Size(fs, i)
       /\ \A i, k \in 1..L : i < k => Prior(fs, w, i) + Size(fs, i) <= Prior(fs, w, k)
  BY DEF FilesOk, L
\* Where each file begins.
<1>20. ASSUME NEW i \in 1..(L - d)
       PROVE  Prior(gs, w, i + 1) = Prior(gs, w, i) + Size(gs, i)
  <2>1. Prior(gs, w, i) = Prior(fs, w, i + d) /\ Size(gs, i) = Size(fs, i + d)
    BY <1>15
  <2>2. CASE i = L - d
    <3>1. i + d = L /\ i + 1 = L + 1 - d
      BY <1>2, <1>8, <2>2
    <3>2. Prior(gs, w, i + 1) = w
      BY <1>16, <3>1
    <3>3. QED
      BY <1>1, <2>1, <3>1, <3>2
  <2>3. CASE i # L - d
    <3>1. i + 1 \in 1..(L - d) /\ i + d \in 1..(L - 1) /\ (i + 1) + d = (i + d) + 1
      BY <1>2, <1>8, <2>3
    <3>2. Prior(gs, w, i + 1) = Prior(fs, w, (i + 1) + d)
      BY <1>15, <3>1
    <3>3. QED
      BY <1>19, <2>1, <3>1, <3>2
  <2>4. QED
    BY <2>2, <2>3
<1>21. ASSUME NEW i \in 1..(L - d)
       PROVE  Prior(gs, w, i) + Size(gs, i) <= w
  <2>1. Prior(gs, w, i) = Prior(fs, w, i + d) /\ Size(gs, i) = Size(fs, i + d)
        /\ i + d \in 1..L
    BY <1>13, <1>15
  <2>2. Prior(fs, w, L) <= w
    <3>1. Prior(fs, w, L) \in Nat /\ Size(fs, L) \in Nat
      BY <1>2, <1>1, <1>3, <1>12 DEF L
    <3>2. QED
      BY <1>1, <3>1
  <2>3. CASE i + d = L
    BY <1>1, <2>1, <2>3
  <2>4. CASE i + d # L
    <3>1. i + d < L /\ L \in 1..L /\ i + d \in 1..L
      BY <1>2, <2>1, <2>4
    <3>2. Prior(fs, w, i + d) + Size(fs, i + d) <= Prior(fs, w, L)
      BY <1>19, <3>1
    <3>3. Prior(fs, w, i + d) \in Nat /\ Size(fs, i + d) \in Nat /\ Prior(fs, w, L) \in Nat
      BY <1>12, <3>1
    <3>4. QED
      BY <1>1, <2>1, <2>2, <3>2, <3>3
  <2>5. QED
    BY <2>3, <2>4
<1>22. ASSUME NEW i \in 1..(L + 1 - d), NEW k \in 1..(L + 1 - d), i < k
       PROVE  Prior(gs, w, i) + Size(gs, i) <= Prior(gs, w, k)
  <2>1. i \in 1..(L - d)
    BY <1>2, <1>8, <1>22
  <2>2. CASE k = L + 1 - d
    <3>1. Prior(gs, w, k) = w
      BY <1>16, <2>2
    <3>2. QED
      BY <1>21, <2>1, <3>1
  <2>3. CASE k \in 1..(L - d)
    <3>1. i + d \in 1..L /\ k + d \in 1..L /\ i + d < k + d
      BY <1>2, <1>8, <1>22, <2>1, <2>3
    <3>2. Prior(gs, w, i) = Prior(fs, w, i + d) /\ Size(gs, i) = Size(fs, i + d)
          /\ Prior(gs, w, k) = Prior(fs, w, k + d)
      BY <1>15, <2>1, <2>3
    <3>3. QED
      BY <1>19, <3>1, <3>2
  <2>4. QED
    BY <1>17, <2>2, <2>3
<1>23. FilesOk(gs, w, t + 1)
  <2>1. /\ Len(gs) = L + 1 - d /\ Len(gs) - 1 = L - d
        /\ Len(gs) >= 1 /\ t + 1 \in Nat /\ Len(gs) <= (t + 1) + 1
    BY <1>1, <1>2, <1>8, <1>11
  <2>2. t + 1 + Size(gs, Len(gs)) <= w /\ Prior(gs, w, Len(gs)) + Size(gs, Len(gs)) = w
    <3>1. Size(gs, Len(gs)) = 0 /\ Prior(gs, w, Len(gs)) = w
      BY <1>16, <2>1
    <3>2. t + 1 <= w
      <4>1. Size(fs, L) \in Nat /\ Size(fs, L) >= 1
        BY <1>3, <1>12 DEF L
      <4>2. QED
        BY <1>1, <4>1
    <3>3. w \in Nat /\ t \in Nat
      BY <1>1
    <3>4. QED
      BY <3>1, <3>2, <3>3
  <2>3. w <= MaxLine
    BY DEF FilesOk
  <2>4. QED
    BY <1>1, <1>11, <1>18, <1>20, <1>22, <2>1, <2>2, <2>3 DEF FilesOk
<1>24. QED
  BY <1>8, <1>11, <1>13, <1>15, <1>23 DEF L, d

\* The names tell the age: the file being written is the newest, then the last
\* rotated.
NewerThan(a, b) == b # 0 /\ (a = 0 \/ a > b)

LEMMA NamesTellAge ==
  ASSUME NEW fs, NEW w, NEW t, FilesOk(fs, w, t)
  PROVE  /\ Len(fs) \in Nat /\ Len(fs) >= 1 /\ fs[Len(fs)].name = 0
         /\ \A i \in 1..Len(fs) : fs[i].name \in 0..t /\ (fs[i].name = 0 => i = Len(fs))
         /\ \A i, k \in 1..Len(fs) : fs[i].name = fs[k].name => i = k
         /\ \A i, k \in 1..Len(fs) : NewerThan(fs[i].name, fs[k].name) <=> k < i
<1> DEFINE L == Len(fs)
<1>1. /\ fs \in Seq(File) /\ L >= 1 /\ t \in Nat /\ L <= t + 1
      /\ \A i \in 1..L : fs[i].name = IF i = L THEN 0 ELSE t - L + 1 + i
  BY DEF FilesOk, NameAt
<1>2. L \in Nat
  BY <1>1, LenProperties
<1> HIDE DEF L
<1>3. L \in 1..L
  BY <1>1, <1>2
<1>4. fs[L].name = 0
  BY <1>1, <1>3
<1>5. \A i \in 1..L : i # L => fs[i].name = t - L + 1 + i /\ t - L + 1 + i \in 1..t
  BY <1>1, <1>2
<1>6. ASSUME NEW i \in 1..L, NEW k \in 1..L
      PROVE  /\ fs[i].name \in 0..t /\ (fs[i].name = 0 => i = L)
             /\ fs[i].name = fs[k].name => i = k
             /\ NewerThan(fs[i].name, fs[k].name) <=> k < i
  <2>1. CASE i = L /\ k = L
    BY <1>1, <1>2, <1>4, <2>1 DEF NewerThan
  <2>2. CASE i = L /\ k # L
    BY <1>1, <1>2, <1>4, <1>5, <2>2 DEF NewerThan
  <2>3. CASE i # L /\ k = L
    BY <1>1, <1>2, <1>4, <1>5, <2>3 DEF NewerThan
  <2>4. CASE i # L /\ k # L
    BY <1>1, <1>2, <1>5, <2>4 DEF NewerThan
  <2>5. QED
    BY <2>1, <2>2, <2>3, <2>4
<1>7. QED
  BY <1>1, <1>2, <1>4, <1>6 DEF L

\* A name is the name of one file.
LEMMA PlaceIs ==
  ASSUME NEW w, NEW t, FilesOk(files, w, t)
  PROVE  /\ Names = {files[i].name : i \in 1..Len(files)}
         /\ \A i \in 1..Len(files) : PlaceOf(files[i].name) = i
         /\ LinesOf(Current) = files[Len(files)].lines
<1>1. DOMAIN files = 1..Len(files)
  BY LenProperties DEF FilesOk
<1>2. Names = {files[i].name : i \in 1..Len(files)}
  BY <1>1 DEF Names
<1>3. \A i, k \in 1..Len(files) : files[i].name = files[k].name => i = k
  BY NamesTellAge
<1>4. ASSUME NEW i \in 1..Len(files) PROVE PlaceOf(files[i].name) = i
  <2>1. \A k \in DOMAIN files : files[k].name = files[i].name <=> k = i
    BY <1>1, <1>3
  <2>2. i \in DOMAIN files
    BY <1>1
  <2>3. QED
    BY <2>1, <2>2 DEF PlaceOf
<1>5. LinesOf(Current) = files[Len(files)].lines
  <2>1. Len(files) \in 1..Len(files) /\ files[Len(files)].name = Current
    BY NamesTellAge, LogAssumption
  <2>2. PlaceOf(Current) = Len(files)
    BY <1>4, <2>1
  <2>3. QED
    BY <2>2 DEF LinesOf
<1>6. QED
  BY <1>2, <1>4, <1>5

\* What the files hold is what was written since the first line of the oldest.
LEMMA HeldIs ==
  ASSUME FilesOk(files, written, turned)
  PROVE  Held = written - Prior(files, written, 1)
<1> DEFINE L == Len(files)
           n(i) == Len(files[i].lines)
           b(i) == Prior(files, written, i)
           Sums(f) == f = [i \in 0..L |-> IF i = 0 THEN 0 ELSE f[i - 1] + n(i)]
           sum == [i \in 0..L |-> IF i = 0 THEN 0
                                  ELSE IF i = L THEN written - b(1) ELSE b(i + 1) - b(1)]
           the == CHOOSE f : Sums(f)
<1>1. /\ L \in Nat /\ L >= 1 /\ written \in Nat
      /\ \A i \in 1..L : n(i) \in Nat /\ b(i) \in Nat
      /\ \A i \in 1..(L - 1) : b(i + 1) = b(i) + n(i)
      /\ b(L) + n(L) = written
  BY NamesTellAge DEF FilesOk, Size
<1>2. Held = the[L]
  BY DEF Held
<1> HIDE DEF L, n, b
\* What the sums of the lengths come to.
<1>3. \A i \in 1..L : sum[i] = sum[i - 1] + n(i)
  <2>1. ASSUME NEW i \in 1..L PROVE sum[i] = sum[i - 1] + n(i)
    <3>1. i - 1 \in 0..L /\ i \in 0..L /\ i # 0 /\ i - 1 # L /\ 1 \in 1..L
      BY <1>1
    <3>2. sum[i] = IF i = L THEN written - b(1) ELSE b(i + 1) - b(1)
      BY <3>1
    <3>3. sum[i - 1] = IF i = 1 THEN 0 ELSE b(i) - b(1)
      <4>1. CASE i = 1
        BY <3>1, <4>1
      <4>2. CASE i # 1
        <5>1. i - 1 # 0 /\ (i - 1) + 1 = i
          BY <3>1, <4>2
        <5>2. QED
          BY <3>1, <4>2, <5>1
      <4>3. QED
        BY <4>1, <4>2
    <3> HIDE DEF sum
    <3>4. b(i) \in Nat /\ b(1) \in Nat /\ n(i) \in Nat
      BY <1>1, <3>1
    <3>5. CASE i = L
      <4>1. b(i) + n(i) = written /\ written \in Nat
        BY <1>1, <3>5
      <4>2. QED
        BY <3>2, <3>3, <3>4, <3>5, <4>1
    <3>6. CASE i # L
      <4>1. b(i + 1) = b(i) + n(i)
        BY <1>1, <3>1, <3>6
      <4>2. QED
        BY <3>2, <3>3, <3>4, <3>6, <4>1
    <3>7. QED
      BY <3>5, <3>6
  <2>2. QED
    BY <2>1
<1>4. Sums(sum)
  <2>1. sum[0] = 0 /\ 0 \in 0..L
    BY <1>1
  <2>2. sum = [i \in 0..L |-> sum[i]]
    OBVIOUS
  <2> HIDE DEF sum
  <2>3. \A i \in 0..L : sum[i] = IF i = 0 THEN 0 ELSE sum[i - 1] + n(i)
    BY <1>1, <1>3, <2>1
  <2>4. QED
    BY <2>2, <2>3
<1>5. Sums(the)
  <2> HIDE DEF Sums, sum
  <2>1. QED
    BY <1>4
<1>6. \A i \in 0..L : the[i] = IF i = 0 THEN 0 ELSE the[i - 1] + n(i)
  <2> HIDE DEF the
  <2>1. QED
    BY <1>5
\* There is only one such function.
<1> DEFINE Same == {i \in Nat : i <= L => the[i] = sum[i]}
<1>7. 0 \in Same
  <2>1. sum[0] = 0 /\ the[0] = 0
    <3> HIDE DEF the
    <3>1. QED
      BY <1>1, <1>6
  <2> HIDE DEF sum, the
  <2>2. QED
    BY <2>1
<1>8. ASSUME NEW i \in Nat, i \in Same, i < L PROVE i + 1 \in Same
  <2>1. i + 1 \in 1..L /\ (i + 1) - 1 = i /\ i + 1 \in 0..L
    BY <1>1, <1>8
  <2> HIDE DEF sum, the
  <2>2. the[i] = sum[i]
    BY <1>1, <1>8
  <2>3. the[i + 1] = the[i] + n(i + 1)
    BY <1>6, <2>1
  <2>4. sum[i + 1] = sum[i] + n(i + 1)
    BY <1>3, <2>1
  <2>5. QED
    BY <2>2, <2>3, <2>4
<1>9. L \in Same
  <2>1. 0..L \subseteq Same
    <3> HIDE DEF Same
    <3>1. QED
      BY <1>1, <1>7, <1>8, IntervalInduction
  <2> HIDE DEF Same
  <2>2. QED
    BY <1>1, <2>1
<1>10. sum[L] = written - b(1)
  BY <1>1
<1>11. QED
  <2> HIDE DEF sum, the
  <2>1. QED
    BY <1>1, <1>2, <1>9, <1>10 DEF b

-----------------------------------------------------------------------------
(* The names read and sorted *)

\* The names read are those of the files, each once.
LEMMA NamesListed ==
  ASSUME NEW w, NEW t, FilesOk(files, w, t), NEW s, s = SetToSeq(Names)
  PROVE  /\ s \in Seq(Names) /\ {s[i] : i \in DOMAIN s} = Names
         /\ \A i, k \in DOMAIN s : s[i] = s[k] => i = k
         /\ Len(s) = Cardinality(Names) /\ IsFiniteSet(Names)
<1> DEFINE n == Cardinality(Names)
<1>1. IsFiniteSet(Names)
  <2>1. Len(files) \in Nat /\ \A i \in 1..Len(files) : files[i].name \in 0..t
    BY NamesTellAge
  <2>2. Names \subseteq 0..t
    BY <2>1, PlaceIs
  <2>3. IsFiniteSet(0..t)
    BY FS_Interval DEF FilesOk
  <2>4. QED
    BY <2>2, <2>3, FS_Subset
<1>2. n \in Nat /\ ExistsBijection(1..n, Names)
  BY <1>1, FS_CardinalityType
<1>3. \E f \in [1..n -> Names] : IsInjective(f)
  <2> HIDE DEF n
  <2>1. PICK f : f \in Bijection(1..n, Names)
    BY <1>2, Fun_ExistsBij
  <2>2. f \in [1..n -> Names] /\ \A a, b \in 1..n : f[a] = f[b] => a = b
    BY <2>1, Fun_BijectionProperties
  <2>3. QED
    BY <2>2 DEF IsInjective
<1>4. s \in [1..n -> Names] /\ IsInjective(s)
  <2>1. s = CHOOSE f \in [1..n -> Names] : IsInjective(f)
    BY DEF SetToSeq
  <2> HIDE DEF n
  <2>2. QED
    BY <1>3, <2>1
<1>5. \A i, k \in 1..n : s[i] = s[k] => i = k
  BY <1>4 DEF IsInjective
<1> HIDE DEF n
<1>6. \A x \in Names : \E i \in 1..n : s[i] = x
  <2>1. s \in Injection(1..n, Names)
    BY <1>4, <1>5, Fun_IsInj
  <2>2. Cardinality(1..n) = n
    BY <1>2, FS_Interval
  <2>3. s \in Surjection(1..n, Names)
    BY <1>1, <2>1, <2>2, FS_Injection DEF n
  <2> DEFINE I == 1..n
  <2>4. \A x \in Names : \E i \in I : s[i] = x
    <3>1. s \in Surjection(I, Names)
      BY <2>3
    <3> HIDE DEF I
    <3>2. QED
      BY <3>1, Fun_SurjectionProperties
  <2>5. QED
    BY <2>4
<1>7. {s[i] : i \in 1..n} = Names
  BY <1>4, <1>6
<1>8. s \in Seq(Names) /\ Len(s) = n /\ DOMAIN s = 1..n
  BY <1>2, <1>4
<1>9. QED
  BY <1>1, <1>5, <1>7, <1>8 DEF n

Descending(s) == \A i, k \in 1..Len(s) : i < k => NewerThan(s[i], s[k])

\* Sorted by the files' places, the names are in the order of their age, and none
\* is left out.
LEMMA SortedIs ==
  ASSUME NEW w, NEW t, FilesOk(files, w, t), NEW n \in Nat, NEW S, S \subseteq Names,
         IsFiniteSet(S), Cardinality(S) = n, NEW s \in [1..n -> S], NewestFirst(s)
  PROVE  Len(s) = n /\ Descending(s) /\ {s[i] : i \in DOMAIN s} = S
<1>1. Len(s) = n /\ DOMAIN s = 1..n
  OBVIOUS
<1>2. ASSUME NEW i \in 1..n, NEW k \in 1..n, i < k PROVE NewerThan(s[i], s[k])
  <2>1. PlaceOf(s[i]) > PlaceOf(s[k])
    BY <1>1, <1>2 DEF NewestFirst
  <2>2. s[i] \in Names /\ s[k] \in Names
    OBVIOUS
  <2>3. PICK a \in 1..Len(files) : s[i] = files[a].name
    BY <2>2, PlaceIs
  <2>4. PICK b \in 1..Len(files) : s[k] = files[b].name
    BY <2>2, PlaceIs
  <2>5. PlaceOf(files[a].name) = a /\ PlaceOf(files[b].name) = b
    BY PlaceIs
  <2>6. a > b
    BY <2>1, <2>3, <2>4, <2>5
  <2>7. b < a
    BY <2>6
  <2>8. NewerThan(files[a].name, files[b].name)
    BY <2>7, NamesTellAge
  <2>9. QED
    BY <2>3, <2>4, <2>8
<1>3. \A i, k \in 1..n : s[i] = s[k] => i = k
  <2>1. ASSUME NEW i \in 1..n, NEW k \in 1..n, i < k PROVE s[i] # s[k]
    <3>1. PlaceOf(s[i]) > PlaceOf(s[k])
      BY <1>1, <2>1 DEF NewestFirst
    <3>2. s[i] \in Names
      OBVIOUS
    <3>3. PICK a \in 1..Len(files) : s[i] = files[a].name
      BY <3>2, PlaceIs
    <3>4. PlaceOf(s[i]) = a
      BY <3>3, PlaceIs
    <3>5. QED
      BY <3>1, <3>4
  <2>2. QED
    BY <2>1
<1>4. \A x \in S : \E i \in 1..n : s[i] = x
  <2> DEFINE I == 1..n
  <2>1. Cardinality(I) = n
    BY FS_Interval
  <2>2. s \in [I -> S] /\ \A i, k \in I : s[i] = s[k] => i = k
    BY <1>3
  <2> HIDE DEF I
  <2>3. s \in Injection(I, S)
    BY <2>2, Fun_IsInj
  <2>4. s \in Surjection(I, S)
    BY <2>1, <2>3, FS_Injection
  <2>5. \A x \in S : \E i \in I : s[i] = x
    BY <2>4, Fun_SurjectionProperties
  <2>6. QED
    BY <2>5 DEF I
<1>5. QED
  BY <1>1, <1>2, <1>4 DEF Descending

\* The lines of s are those after the first b.
Numbered(s, b) == \A j \in 1..Len(s) : s[j] = b + j

\* The last lines of a file, as many as there is room for, before those kept.
TailPlan(new, ls, ks, b, over, room) ==
  /\ ls \in Seq(1..MaxLine) /\ ks \in Seq(1..MaxLine) /\ b \in Nat /\ Numbered(ls, b)
  /\ room \in Nat /\ over = IF Len(ls) > room THEN Len(ls) - room ELSE 0
  /\ new = SubSeq(ls, over + 1, Len(ls)) \o ks

\* What that makes of the numbers of the lines.
TailJoined(new, ls, ks, b, over, room) ==
  /\ new \in Seq(1..MaxLine) /\ Len(ls) \in Nat /\ over \in 0..Len(ls)
  /\ Len(ls) - over <= room /\ (Len(ls) - over < room => over = 0)
  /\ Len(new) = Len(ls) - over + Len(ks) /\ Len(ks) \in Nat
  /\ \A k \in 1..(Len(ls) - over) : new[k] = b + over + k
  /\ \A k \in 1..Len(ks) : new[Len(ls) - over + k] = ks[k]

LEMMA TailTaken ==
  ASSUME NEW new, NEW ls, NEW ks, NEW b, NEW over, NEW room,
         TailPlan(new, ls, ks, b, over, room)
  PROVE  TailJoined(new, ls, ks, b, over, room)
<1>0. /\ ls \in Seq(1..MaxLine) /\ ks \in Seq(1..MaxLine) /\ b \in Nat /\ Numbered(ls, b)
      /\ room \in Nat
      /\ over = IF Len(ls) > room THEN Len(ls) - room ELSE 0
      /\ new = SubSeq(ls, over + 1, Len(ls)) \o ks
  BY DEF TailPlan
<1> USE <1>0
<1> DEFINE n == Len(ls)
           q == n - over
           rest == SubSeq(ls, over + 1, n)
<1>1. n \in Nat /\ Len(ks) \in Nat
  BY LenProperties
<1>2. over \in 0..n /\ q \in Nat /\ q <= room /\ (q < room => over = 0) /\ over + q = n
  <2>1. over = IF n > room THEN n - room ELSE 0
    OBVIOUS
  <2> HIDE DEF n
  <2>2. QED
    BY <1>1, <2>1
<1>3. \A i \in 1..n : ls[i] \in 1..MaxLine
  BY ElementOfSeq
<1> HIDE DEF n, q
<1>4. /\ rest \in Seq(1..MaxLine) /\ Len(rest) = q
      /\ \A k \in 1..q : rest[k] = ls[over + k]
  <2> DEFINE m == over + 1
  <2>1. m \in Int /\ n \in Int /\ (IF m <= n THEN n - m + 1 ELSE 0) = q /\ n - m + 1 = q
    <3>1. m \in Nat /\ n \in Nat /\ q \in Nat /\ m + q = n + 1
      BY <1>1, <1>2
    <3> HIDE DEF m
    <3>2. QED
      BY <3>1
  <2>2. \A i \in m..n : ls[i] \in 1..MaxLine
    BY <1>1, <1>2, <1>3
  <2>3. \A k \in 1..q : m + k - 1 = over + k
    BY <1>1, <1>2
  <2> HIDE DEF m
  <2>4. /\ SubSeq(ls, m, n) \in Seq(1..MaxLine)
        /\ Len(SubSeq(ls, m, n)) = IF m <= n THEN n - m + 1 ELSE 0
        /\ \A k \in 1..(n - m + 1) : SubSeq(ls, m, n)[k] = ls[m + k - 1]
    BY <2>1, <2>2, SubSeqProperties
  <2>5. rest = SubSeq(ls, m, n)
    BY DEF m
  <2> HIDE DEF rest
  <2>6. Len(rest) = q
    BY <2>1, <2>4, <2>5
  <2>7. \A k \in 1..q : rest[k] = ls[over + k]
    BY <2>1, <2>3, <2>4, <2>5
  <2>8. QED
    BY <2>4, <2>5, <2>6, <2>7
<1>5. new = rest \o ks
  BY DEF n
<1> HIDE DEF rest
<1>6. /\ new \in Seq(1..MaxLine) /\ Len(new) = q + Len(ks)
      /\ \A k \in 1..(q + Len(ks)) : new[k] = IF k <= q THEN rest[k] ELSE ks[k - q]
  <2>1. /\ rest \o ks \in Seq(1..MaxLine) /\ Len(rest \o ks) = Len(rest) + Len(ks)
        /\ \A k \in 1..(Len(rest) + Len(ks)) :
             (rest \o ks)[k] = IF k <= Len(rest) THEN rest[k] ELSE ks[k - Len(rest)]
    BY <1>4, ConcatProperties
  <2>2. Len(rest) = q
    BY <1>4
  <2>3. QED
    BY <1>5, <2>1, <2>2
<1>7. ASSUME NEW k \in 1..q PROVE new[k] = b + over + k
  <2>1. k \in 1..(q + Len(ks)) /\ k <= q /\ over + k \in 1..n
    BY <1>1, <1>2
  <2>2. new[k] = ls[over + k]
    BY <1>4, <1>6, <2>1
  <2>3. ls[over + k] = b + (over + k)
    BY <2>1 DEF n, Numbered
  <2>4. over \in Nat
    BY <1>1, <1>2
  <2>5. b + (over + k) = b + over + k
    BY <2>4
  <2>6. QED
    BY <2>2, <2>3, <2>5
<1>8. ASSUME NEW k \in 1..Len(ks) PROVE new[q + k] = ks[k]
  <2> DEFINE j == q + k
  <2>1. j \in 1..(q + Len(ks)) /\ ~(j <= q) /\ j - q = k
    BY <1>1, <1>2
  <2> HIDE DEF j
  <2>2. new[j] = ks[k]
    BY <1>6, <2>1
  <2>3. QED
    BY <2>2 DEF j
<1>9. /\ new \in Seq(1..MaxLine) /\ n \in Nat /\ over \in 0..n
      /\ q <= room /\ (q < room => over = 0)
      /\ Len(new) = q + Len(ks) /\ Len(ks) \in Nat
  BY <1>1, <1>2, <1>6
<1>10. /\ \A k \in 1..q : new[k] = b + over + k
       /\ \A k \in 1..Len(ks) : new[q + k] = ks[k]
  BY <1>7, <1>8
<1>11. n = Len(ls) /\ q = n - over
  BY DEF n, q
<1> HIDE <1>0
<1>12. QED
  BY <1>9, <1>10, <1>11 DEF TailJoined

-----------------------------------------------------------------------------
(* The export *)

Contiguous(s) == \A k \in 1..Len(s) : s[k] = s[1] + k - 1

\* Without a rotation, the m oldest files are still to be read, and what is kept
\* begins where they end; nothing is kept only when the newest at most was read.
Gapless(m) ==
  /\ m \in 0..Len(files) /\ Listed \subseteq Names /\ Contiguous(kept)
  /\ kept # <<>> /\ Len(kept) < budget =>
       m < Len(files) /\ kept[1] = Prior(files, written, m + 1) + 1
  /\ job = "sorted" => \A i \in 1..Len(files) : files[i].name \in Listed <=> i <= m
  /\ job = "over" /\ Len(kept) < budget => m = 0
  /\ kept = <<>> /\ 0 < budget /\ ~error => Len(files) <= m + 1

ExportTypes ==
  /\ job \in {"idle", "named", "sorted", "over"}
  /\ budget \in Budgets \cup {0}
  /\ plan \in Seq(0..turned) /\ kept \in Seq(1..MaxLine)
  /\ error \in BOOLEAN /\ moved \in BOOLEAN

\* The names still to read are in the order of their age, and what is kept was
\* written after all their files hold.
ExportInv ==
  /\ ExportTypes
  /\ job \in {"idle", "named"} => kept = <<>>
  /\ job \in {"idle", "over"} => plan = <<>>
  /\ job = "named" => /\ IsFiniteSet(Listed) /\ Cardinality(Listed) = Len(plan)
                      /\ ~moved => Listed = Names
  /\ job = "sorted" => Descending(plan)
  /\ kept # <<>> => 0 \notin Listed
  /\ Ascending(kept) /\ Len(kept) <= budget
  /\ \A i \in 1..Len(files), k \in 1..Len(kept) :
       files[i].name \in Listed => Prior(files, written, i) + Size(files, i) < kept[k]
  /\ job \in {"sorted", "over"} /\ ~moved => \E m : Gapless(m)

LogInv == FilesOk(files, written, turned) /\ ExportInv

\* Nothing kept, nothing to read.
LEMMA ExportEmpty ==
  ASSUME LogInv, FilesOk(files', written', turned'),
         plan' = <<>>, kept' = <<>>, job' \in {"idle", "over"}, job' = "over" => error',
         budget' \in Budgets \cup {0}, error' \in BOOLEAN, moved' \in BOOLEAN
  PROVE  LogInv'
<1>1. Len(kept') = 0 /\ Len(plan') = 0 /\ 1..0 = {} /\ budget' \in Nat /\ 0 <= budget'
  BY LogAssumption, EmptySeq
<1>2. Listed' = {}
  <2>1. DOMAIN plan' = {}
    OBVIOUS
  <2>2. QED
    BY <2>1 DEF Listed
<1>3. ExportTypes'
  BY EmptySeq DEF ExportTypes
<1>4. Len(files') \in Nat
  BY NamesTellAge
<1>5. ASSUME job' = "over" PROVE Gapless(0)'
  <2>1. \A i \in 1..Len(files') : ~(i <= 0)
    BY <1>4
  <2>2. QED
    BY <1>1, <1>2, <1>4, <1>5, <2>1 DEF Gapless, Contiguous
<1>6. Ascending(kept)'
  BY DEF Ascending
<1>7. (job \in {"sorted", "over"} /\ ~moved => \E m : Gapless(m))'
  BY <1>5
<1>8. ExportInv'
  BY <1>1, <1>2, <1>3, <1>6, <1>7 DEF ExportInv
<1>9. FilesOk(files, written, turned)'
  OBVIOUS
<1>10. QED
  BY <1>8, <1>9 DEF LogInv

LEMMA LogStart == ASSUME LogInit PROVE LogInv
<1> DEFINE f == [name |-> Current, lines |-> <<>>]
<1>1. /\ files = <<f>> /\ written = 0 /\ turned = 0 /\ job = "idle" /\ budget = 0
      /\ plan = <<>> /\ kept = <<>> /\ error = FALSE /\ moved = FALSE
  BY DEF LogInit
<1>2. f \in File /\ f.name = 0 /\ Len(f.lines) = 0
  <2>1. 0 \in Name /\ <<>> \in Seq(1..MaxLine) /\ Len(<<>>) = 0
    BY LogAssumption, EmptySeq DEF Name
  <2>2. QED
    BY <2>1, LogAssumption DEF File
<1> HIDE DEF f
<1>3. files \in Seq(File) /\ Len(files) = 1 /\ files[1] = f
  BY <1>1, <1>2
<1>4. Size(files, 1) = 0 /\ Prior(files, 0, 1) = 0
  BY <1>2, <1>3 DEF Size, Prior
<1>5. FilesOk(files, written, turned)
  <2>1. \A i \in 1..1 : i = 1
    OBVIOUS
  <2>2. 1..0 = {} /\ 1 - 1 = 0
    OBVIOUS
  <2>3. NameAt(files, 0, 1) = 0
    BY <1>3 DEF NameAt
  <2>4. \A i, k \in 1..1 : ~(i < k)
    OBVIOUS
  <2>5. 0 <= MaxLine
    BY LogAssumption
  <2>6. \A i \in 1..1 : /\ Size(files, i) \in Nat /\ Prior(files, 0, i) \in Nat
                        /\ files[i].name = NameAt(files, 0, i)
                        /\ i # 1 => Size(files, i) >= 1
                        /\ \A j \in 1..Size(files, i) : Line(files, i, j) = Prior(files, 0, i) + j
    BY <1>2, <1>3, <1>4, <2>1, <2>2, <2>3
  <2>7. /\ 0 + Size(files, 1) <= 0 /\ Prior(files, 0, 1) + Size(files, 1) = 0
        /\ \A i \in 1..(1 - 1) : Prior(files, 0, i + 1) = Prior(files, 0, i) + Size(files, i)
    BY <1>4, <2>2
  <2>8. FilesOk(files, 0, 0)
    BY <1>3, <2>4, <2>5, <2>6, <2>7 DEF FilesOk
  <2>9. QED
    BY <1>1, <2>8
<1>6. Len(kept) = 0 /\ Len(plan) = 0 /\ 1..0 = {} /\ 0 <= 0
  BY <1>1, EmptySeq
<1>7. Listed = {}
  BY <1>1 DEF Listed
<1>8. ExportTypes
  BY <1>1, EmptySeq DEF ExportTypes
<1>9. Ascending(kept)
  BY <1>1 DEF Ascending
<1>10. QED
  BY <1>1, <1>5, <1>6, <1>7, <1>8, <1>9 DEF LogInv, ExportInv

\* What the invariant says of the types.
LEMMA LogTypes == ASSUME LogInv PROVE LogTypeOK
<1>1. /\ files \in Seq(File) /\ written \in Nat /\ written <= MaxLine /\ turned \in Nat
      /\ turned + Size(files, Len(files)) <= written
  BY DEF LogInv, FilesOk
<1>2. Size(files, Len(files)) \in Nat
  <2>1. Len(files) \in 1..Len(files)
    BY NamesTellAge DEF LogInv
  <2>2. QED
    BY <2>1 DEF LogInv, FilesOk
<1>3. turned \in Name /\ written \in 0..MaxLine /\ 0..turned \subseteq Name
  BY <1>1, <1>2, LogAssumption DEF Name
<1>4. plan \in Seq(Name)
  <2>1. plan \in Seq(0..turned)
    BY DEF LogInv, ExportInv, ExportTypes
  <2>2. QED
    BY <1>3, <2>1, SeqMonotonic
<1>5. QED
  BY <1>1, <1>3, <1>4 DEF LogInv, ExportInv, ExportTypes, LogTypeOK, File

LEMMA LogUnmoved == ASSUME LogInv, UNCHANGED logVars PROVE LogInv'
<1>1. UNCHANGED <<files, written, turned, job, budget, plan, kept, error, moved>>
  BY DEF logVars, fileVars, jobVars
<1>2. Listed' = Listed /\ Names' = Names
  BY <1>1 DEF Listed, Names
<1>3. \A m : Gapless(m) => Gapless(m)'
  BY <1>1, <1>2 DEF Gapless
<1>4. ExportTypes'
  BY <1>1 DEF LogInv, ExportInv, ExportTypes
<1>5. ExportInv'
  BY <1>1, <1>2, <1>3, <1>4 DEF LogInv, ExportInv
<1>6. QED
  BY <1>1, <1>5 DEF LogInv

LEMMA WriteLineKept == ASSUME LogInv, WriteLine PROVE LogInv'
<1>1. /\ written < MaxLine /\ written' = written + 1 /\ turned' = turned
      /\ files' = [files EXCEPT ![Len(files)].lines = Append(@, written + 1)]
      /\ UNCHANGED <<job, budget, plan, kept, error, moved>>
  BY DEF WriteLine, jobVars
<1>2. FilesOk(files, written, turned) /\ ExportInv
  BY DEF LogInv
<1>3. /\ FilesOk(files', written + 1, turned) /\ Len(files') = Len(files)
      /\ \A i \in 1..Len(files) :
           /\ files'[i].name = files[i].name
           /\ Prior(files', written + 1, i) = Prior(files, written, i)
           /\ i # Len(files) => Size(files', i) = Size(files, i)
  <2>1. \A gs : gs = [files EXCEPT ![Len(files)].lines = Append(@, written + 1)] =>
          /\ FilesOk(gs, written + 1, turned) /\ Len(gs) = Len(files)
          /\ \A i \in 1..Len(files) :
               /\ gs[i].name = files[i].name
               /\ Prior(gs, written + 1, i) = Prior(files, written, i)
               /\ i # Len(files) => Size(gs, i) = Size(files, i)
    BY <1>1, <1>2, WrittenOk
  <2>2. QED
    BY <1>1, <2>1
<1>4. Names' = Names /\ Listed' = Listed
  <2>1. Names = {files[i].name : i \in 1..Len(files)}
    BY <1>2, PlaceIs
  <2>2. Names' = {files'[i].name : i \in 1..Len(files')}
    <3>1. DOMAIN files' = 1..Len(files')
      BY <1>3, LenProperties DEF FilesOk
    <3>2. QED
      BY <3>1 DEF Names
  <2>3. Listed' = Listed
    BY <1>1 DEF Listed
  <2>4. QED
    BY <1>3, <2>1, <2>2, <2>3
<1>5. ASSUME NEW i \in 1..Len(files), NEW k \in 1..Len(kept), files[i].name \in Listed
      PROVE  Prior(files, written, i) + Size(files', i) < kept[k]
  <2>1. kept # <<>>
    <3>1. Len(kept) \in Nat
      BY <1>2, LenProperties DEF ExportInv, ExportTypes
    <3>2. Len(kept) # 0
      BY <3>1
    <3>3. QED
      BY <3>2, EmptySeq
  <2>2. i # Len(files)
    BY <1>2, <1>5, <2>1, NamesTellAge DEF ExportInv
  <2>3. Size(files', i) = Size(files, i)
    BY <1>3, <2>2
  <2>4. QED
    BY <1>2, <1>5, <2>3 DEF ExportInv
<1>6. ASSUME NEW m, Gapless(m) PROVE Gapless(m)'
  <2>1. m \in 0..Len(files') /\ Listed' \subseteq Names' /\ Contiguous(kept')
    BY <1>1, <1>3, <1>4, <1>6 DEF Gapless
  <2>2. kept # <<>> /\ Len(kept) < budget =>
          m < Len(files) /\ kept[1] = Prior(files', written', m + 1) + 1
    <3>1. ASSUME kept # <<>>, Len(kept) < budget
          PROVE  m < Len(files) /\ kept[1] = Prior(files', written', m + 1) + 1
      <4>1. m \in 0..Len(files) /\ m < Len(files) /\ kept[1] = Prior(files, written, m + 1) + 1
        BY <1>6, <3>1 DEF Gapless
      <4>2. Len(files) \in Nat
        BY <1>2, NamesTellAge
      <4>3. m + 1 \in 1..Len(files)
        BY <4>1, <4>2
      <4>4. QED
        BY <1>1, <1>3, <4>1, <4>3
    <3>2. QED
      BY <3>1
  <2>3. job = "sorted" => \A i \in 1..Len(files') : files'[i].name \in Listed' <=> i <= m
    BY <1>3, <1>4, <1>6 DEF Gapless
  <2>4. QED
    BY <1>1, <1>3, <1>6, <2>1, <2>2, <2>3 DEF Gapless
<1>7. (job \in {"sorted", "over"} /\ ~moved => \E m : Gapless(m))'
  BY <1>1, <1>2, <1>6 DEF ExportInv
<1>8. \A i \in 1..Len(files'), k \in 1..Len(kept') :
        files'[i].name \in Listed' => Prior(files', written', i) + Size(files', i) < kept'[k]
  <2>1. ASSUME NEW i \in 1..Len(files'), NEW k \in 1..Len(kept'), files'[i].name \in Listed'
        PROVE  Prior(files', written', i) + Size(files', i) < kept'[k]
    <3>1. i \in 1..Len(files) /\ k \in 1..Len(kept) /\ kept'[k] = kept[k]
      BY <1>1, <1>3
    <3>2. files'[i].name = files[i].name
          /\ Prior(files', written + 1, i) = Prior(files, written, i)
      BY <1>3, <3>1
    <3>3. files[i].name \in Listed
      BY <1>4, <2>1, <3>2
    <3>4. Prior(files, written, i) + Size(files', i) < kept[k]
      BY <1>5, <3>1, <3>3
    <3>5. QED
      BY <1>1, <3>1, <3>2, <3>4
  <2>2. QED
    BY <2>1
<1>9. ExportInv'
  BY <1>1, <1>2, <1>4, <1>7, <1>8 DEF ExportInv, ExportTypes
<1>10. QED
  BY <1>1, <1>3, <1>9 DEF LogInv

LEMMA RotateKept == ASSUME LogInv, Rotate PROVE LogInv'
<1> DEFINE d == Dropped(files)
           L == Len(files)
<1>1. /\ Len(LinesOf(Current)) = PerFile /\ turned' = turned + 1 /\ written' = written
      /\ files' = Rotated(files, turned) /\ moved' = (moved \/ job # "idle")
      /\ UNCHANGED <<job, budget, plan, kept, error>>
  BY DEF Rotate, Rotated, jobVars
<1>2. FilesOk(files, written, turned) /\ ExportInv
  BY DEF LogInv
<1>3. Size(files, L) >= 1
  <2>1. Size(files, L) = PerFile
    BY <1>1, <1>2, PlaceIs DEF Size
  <2>2. QED
    BY <2>1, LogAssumption
<1>4. /\ FilesOk(files', written, turned + 1) /\ d \in 0..L /\ Len(files') = L + 1 - d
      /\ \A i \in 1..(L - d) :
           /\ Size(files', i) = Size(files, i + d)
           /\ Prior(files', written, i) = Prior(files, written, i + d)
           /\ files'[i].name = IF i + d = L THEN turned + 1 ELSE files[i + d].name
  <2>1. \A gs : gs = Rotated(files, turned) =>
          /\ FilesOk(gs, written, turned + 1) /\ d \in 0..L /\ Len(gs) = L + 1 - d
          /\ \A i \in 1..(L - d) :
               /\ Size(gs, i) = Size(files, i + d)
               /\ Prior(gs, written, i) = Prior(files, written, i + d)
               /\ gs[i].name = IF i + d = L THEN turned + 1 ELSE files[i + d].name
    BY <1>2, <1>3, RotatedOk
  <2>2. QED
    BY <1>1, <2>1
<1>5. turned \in Nat /\ L \in Nat /\ L >= 1 /\ d \in Nat
  BY <1>2, <1>4, NamesTellAge DEF FilesOk
<1> HIDE DEF d, L
<1>6. CASE job = "idle"
  <2>1. plan = <<>> /\ kept = <<>>
    BY <1>2, <1>6 DEF ExportInv
  <2>2. QED
    BY <1>1, <1>2, <1>4, <1>6, <2>1, ExportEmpty DEF ExportInv, ExportTypes
<1>7. CASE job # "idle"
  <2>1. moved' = TRUE /\ Listed' = Listed
    BY <1>1, <1>7 DEF Listed
  <2>2. plan \in Seq(0..turned) /\ \A x \in Listed : x \in 0..turned
    <3>1. plan \in Seq(0..turned)
      BY <1>2 DEF ExportInv, ExportTypes
    <3>2. \A i \in DOMAIN plan : plan[i] \in 0..turned
      BY <3>1, LenProperties, ElementOfSeq
    <3>3. QED
      BY <3>1, <3>2 DEF Listed
  <2>3. ExportTypes'
    <3>1. 0..turned \subseteq 0..(turned + 1)
      BY <1>5
    <3>2. plan \in Seq(0..(turned + 1))
      BY <2>2, <3>1, SeqMonotonic
    <3>3. QED
      BY <1>1, <1>2, <2>1, <3>2 DEF ExportInv, ExportTypes
  <2>4. ASSUME NEW i \in 1..Len(files'), NEW k \in 1..Len(kept), files'[i].name \in Listed
        PROVE  Prior(files', written, i) + Size(files', i) < kept[k]
    <3>1. kept # <<>>
      <4>1. Len(kept) \in Nat
        BY <1>2, LenProperties DEF ExportInv, ExportTypes
      <4>2. Len(kept) # 0
        BY <4>1
      <4>3. QED
        BY <4>2, EmptySeq
    <3>2. files'[i].name # 0 /\ files'[i].name # turned + 1
      BY <1>2, <1>5, <2>2, <2>4, <3>1 DEF ExportInv
    <3>3. i # Len(files')
      BY <1>4, <3>2, NamesTellAge
    <3>4. i \in 1..(L - d)
      BY <1>4, <1>5, <3>3
    <3>5. i + d \in 1..L /\ files'[i].name = files[i + d].name
      <4>1. i + d \in 1..L
        BY <1>4, <1>5, <3>4
      <4>2. files'[i].name = IF i + d = L THEN turned + 1 ELSE files[i + d].name
        BY <1>4, <3>4
      <4>3. QED
        BY <3>2, <4>1, <4>2
    <3>6. Prior(files, written, i + d) + Size(files, i + d) < kept[k]
      BY <1>2, <2>4, <3>5 DEF ExportInv, L
    <3>7. QED
      BY <1>4, <3>4, <3>6
  <2>5. \A i \in 1..Len(files'), k \in 1..Len(kept') :
          files'[i].name \in Listed' => Prior(files', written', i) + Size(files', i) < kept'[k]
    BY <1>1, <2>1, <2>4
  <2>6. ExportInv'
    BY <1>1, <1>2, <2>1, <2>3, <2>5 DEF ExportInv
  <2>7. QED
    BY <1>1, <1>4, <2>6 DEF LogInv
<1>8. QED
  BY <1>6, <1>7

LEMMA ReadDirKept == ASSUME LogInv, ReadDir PROVE LogInv'
<1>1. /\ job' = "named" /\ budget' \in Budgets /\ plan' = SetToSeq(Names) /\ kept' = <<>>
      /\ error' = FALSE /\ moved' = FALSE /\ UNCHANGED <<files, written, turned>>
  BY DEF ReadDir, fileVars
<1>2. FilesOk(files, written, turned)
  BY DEF LogInv
<1>3. /\ plan' \in Seq(Names) /\ {plan'[i] : i \in DOMAIN plan'} = Names
      /\ Len(plan') = Cardinality(Names) /\ IsFiniteSet(Names)
  BY <1>1, <1>2, NamesListed
<1>4. Listed' = Names /\ Names' = Names
  BY <1>1, <1>3 DEF Listed, Names
<1>5. plan' \in Seq(0..turned)
  <2>1. Names \subseteq 0..turned
    BY <1>2, PlaceIs, NamesTellAge
  <2>2. QED
    BY <1>3, <2>1, SeqMonotonic
<1>6. Len(kept') = 0 /\ 1..0 = {} /\ budget' \in Nat /\ 0 <= budget'
  BY <1>1, LogAssumption, EmptySeq
<1>7. ExportTypes' /\ Ascending(kept)'
  <2>1. kept' \in Seq(1..MaxLine)
    BY <1>1, EmptySeq
  <2>2. plan' \in Seq(0..turned')
    BY <1>1, <1>5
  <2>3. ExportTypes'
    BY <1>1, <2>1, <2>2 DEF ExportTypes
  <2>4. Ascending(kept)'
    BY <1>1 DEF Ascending
  <2>5. QED
    BY <2>3, <2>4
<1>8. ExportInv'
  BY <1>1, <1>3, <1>4, <1>6, <1>7 DEF ExportInv
<1>9. QED
  BY <1>1, <1>2, <1>8 DEF LogInv

LEMMA SortFilesKept == ASSUME LogInv, SortFiles PROVE LogInv'
<1>1. /\ job = "named" /\ Listed \subseteq Names /\ job' = "sorted"
      /\ plan' \in [1..Len(plan) -> Listed] /\ NewestFirst(plan')
      /\ UNCHANGED <<files, written, turned, budget, kept, error, moved>>
  BY DEF SortFiles, fileVars, NewestFirst, PlaceOf
<1>2. FilesOk(files, written, turned) /\ ExportInv
  BY DEF LogInv
<1>3. /\ kept = <<>> /\ IsFiniteSet(Listed) /\ Cardinality(Listed) = Len(plan)
      /\ ~moved => Listed = Names
      /\ plan \in Seq(0..turned) /\ Len(plan) \in Nat
  BY <1>1, <1>2, LenProperties DEF ExportInv, ExportTypes
<1>4. Len(plan') = Len(plan) /\ Descending(plan') /\ {plan'[i] : i \in DOMAIN plan'} = Listed
  BY <1>1, <1>2, <1>3, SortedIs
<1>5. Listed' = Listed /\ Names' = Names
  BY <1>1, <1>4 DEF Listed, Names
<1>6. plan' \in Seq(0..turned)
  <2>1. \A i \in DOMAIN plan : plan[i] \in 0..turned
    BY <1>3, LenProperties, ElementOfSeq
  <2>2. Listed \subseteq 0..turned
    BY <2>1 DEF Listed
  <2>3. plan' \in [1..Len(plan) -> 0..turned]
    BY <1>1, <2>2
  <2> DEFINE n == Len(plan)
             S == 0..turned
  <2>4. n \in Nat /\ plan' \in [1..n -> S]
    BY <1>3, <2>3
  <2> HIDE DEF n, S
  <2>5. plan' \in Seq(S)
    BY <2>4
  <2>6. QED
    BY <2>5 DEF S
<1>7. Len(kept) = 0 /\ 1..0 = {}
  BY <1>3, EmptySeq
<1>8. ExportTypes' /\ Descending(plan)'
  <2>1. ExportTypes'
    BY <1>1, <1>2, <1>6 DEF ExportInv, ExportTypes
  <2>2. QED
    BY <1>4, <2>1 DEF Descending
<1>9. ASSUME ~moved PROVE Gapless(Len(files))'
  <2>1. /\ Len(files) \in Nat /\ Len(files) <= Len(files) + 1
        /\ \A i \in 1..Len(files) : i <= Len(files)
    BY <1>2, NamesTellAge
  <2>2. \A i \in 1..Len(files) : files[i].name \in Names
    BY <1>2, PlaceIs
  <2>3. QED
    BY <1>1, <1>3, <1>5, <1>7, <1>9, <2>1, <2>2 DEF Gapless, Contiguous
<1>10. ~moved' => (\E m : Gapless(m))'
  BY <1>1, <1>9
<1>11. Ascending(kept)' /\ (Len(kept) <= budget)'
  BY <1>1, <1>2 DEF ExportInv, Ascending
<1>12. ExportInv'
  BY <1>1, <1>3, <1>7, <1>8, <1>10, <1>11 DEF ExportInv
<1>13. QED
  BY <1>1, <1>2, <1>12 DEF LogInv

LEMMA OverKept == ASSUME LogInv, FileFails \/ FinishExport \/ ReturnLogs PROVE LogInv'
<1>1. FilesOk(files, written, turned) /\ ExportInv
  BY DEF LogInv
<1>2. CASE FileFails
  <2>1. /\ job' = "over" /\ error' = TRUE /\ plan' = <<>> /\ kept' = <<>>
        /\ UNCHANGED <<files, written, turned, budget, moved>>
    BY <1>2 DEF FileFails, fileVars
  <2>2. QED
    BY <1>1, <2>1, ExportEmpty DEF ExportInv, ExportTypes
<1>3. CASE ReturnLogs
  <2>1. /\ job = "over" /\ job' = "idle" /\ budget' = 0 /\ kept' = <<>> /\ error' = FALSE
        /\ moved' = FALSE /\ UNCHANGED <<files, written, turned, plan>>
    BY <1>3 DEF ReturnLogs, fileVars
  <2>2. plan' = <<>>
    BY <1>1, <2>1 DEF ExportInv
  <2>3. QED
    BY <1>1, <2>1, <2>2, ExportEmpty
<1>4. CASE FinishExport
  <2>1. /\ job = "sorted" /\ ~Reading /\ job' = "over" /\ plan' = <<>>
        /\ UNCHANGED <<files, written, turned, budget, kept, error, moved>>
    BY <1>4 DEF FinishExport, fileVars
  <2>2. Listed' = {} /\ Len(plan') = 0 /\ 1..0 = {}
    <3>1. DOMAIN plan' = {}
      BY <2>1
    <3>2. QED
      BY <2>1, <3>1, EmptySeq DEF Listed
  <2>3. Names' = Names
    BY <2>1 DEF Names
  <2>4. ASSUME NEW m, Gapless(m) PROVE Gapless(m)'
    <3>1. Len(kept) < budget => m = 0
      <4>1. SUFFICES ASSUME Len(kept) < budget PROVE m = 0
        OBVIOUS
      <4>2. Listed = {}
        BY <2>1, <4>1 DEF Reading, Listed
      <4>3. \A i \in 1..Len(files) : ~(i <= m)
        BY <2>1, <2>4, <4>2 DEF Gapless
      <4>4. Len(files) \in Nat /\ Len(files) >= 1 /\ m \in 0..Len(files)
        BY <1>1, <2>4, NamesTellAge DEF Gapless
      <4>5. 1 \in 1..Len(files)
        BY <4>4
      <4>6. ~(1 <= m)
        BY <4>3, <4>5
      <4>7. QED
        BY <4>4, <4>6
    <3>2. QED
      BY <2>1, <2>2, <2>3, <2>4, <3>1 DEF Gapless
  <2>5. (job \in {"sorted", "over"} /\ ~moved => \E m : Gapless(m))'
    BY <1>1, <2>1, <2>4 DEF ExportInv
  <2>6. ExportTypes' /\ Ascending(kept)'
    BY <1>1, <2>1, EmptySeq DEF ExportInv, ExportTypes, Ascending
  <2>7. ExportInv'
    BY <1>1, <2>1, <2>2, <2>5, <2>6 DEF ExportInv
  <2>8. QED
    BY <1>1, <2>1, <2>7 DEF LogInv
<1>5. QED
  BY <1>2, <1>3, <1>4

\* A file read: its last lines go before what is kept.
LEMMA ReadFileKept == ASSUME LogInv, ReadFile PROVE LogInv'
<1>1. /\ job = "sorted" /\ plan # <<>> /\ Len(kept) < budget /\ Head(plan) \in Names
      /\ kept' = LET lines == LinesOf(Head(plan))
                     room  == budget - Len(kept)
                     over  == IF Len(lines) > room THEN Len(lines) - room ELSE 0
                 IN SubSeq(lines, over + 1, Len(lines)) \o kept
      /\ plan' = Tail(plan)
      /\ UNCHANGED <<files, written, turned, job, budget, error, moved>>
  BY DEF ReadFile, Reading, fileVars
<1>2. FilesOk(files, written, turned) /\ ExportInv
  BY DEF LogInv
<1>3. /\ plan \in Seq(0..turned) /\ kept \in Seq(1..MaxLine) /\ budget \in Nat
      /\ Len(plan) \in Nat /\ Len(kept) \in Nat /\ Len(plan) # 0
  BY <1>1, <1>2, LogAssumption, LenProperties, EmptySeq DEF ExportInv, ExportTypes
<1>4. PICK p \in 1..Len(files) :
        files[p].name = Head(plan) /\ LinesOf(Head(plan)) = files[p].lines
  <2>1. PICK p \in 1..Len(files) : files[p].name = Head(plan)
    BY <1>1, <1>2, PlaceIs
  <2>2. PlaceOf(Head(plan)) = p
    BY <1>2, <2>1, PlaceIs
  <2>3. QED
    BY <2>1, <2>2 DEF LinesOf
<1> DEFINE ls == files[p].lines
           room == budget - Len(kept)
           over == IF Len(ls) > room THEN Len(ls) - room ELSE 0
           b == Prior(files, written, p)
           q == Len(ls) - over
<1>5. ls \in Seq(1..MaxLine)
  <2>1. files[p] \in File
    BY <1>2, ElementOfSeq DEF FilesOk
  <2>2. QED
    BY <2>1 DEF File
<1>6. /\ b \in Nat /\ Size(files, p) = Len(ls) /\ \A j \in 1..Len(ls) : ls[j] = b + j
      /\ p # Len(files) => Len(ls) >= 1
  BY <1>2 DEF FilesOk, Size, Line
<1>7. room \in Nat /\ room >= 1 /\ room + Len(kept) = budget
  BY <1>1, <1>3
<1>8. kept' = SubSeq(ls, over + 1, Len(ls)) \o kept
  BY <1>1, <1>4
<1> HIDE DEF ls, b, room
<1>9. /\ kept' \in Seq(1..MaxLine) /\ Len(ls) \in Nat /\ over \in 0..Len(ls)
      /\ q <= room /\ (q < room => over = 0)
      /\ Len(kept') = q + Len(kept)
      /\ \A k \in 1..q : kept'[k] = b + over + k
      /\ \A k \in 1..Len(kept) : kept'[q + k] = kept[k]
  <2>1. over = IF Len(ls) > room THEN Len(ls) - room ELSE 0
    OBVIOUS
  <2>2. ls \in Seq(1..MaxLine) /\ kept \in Seq(1..MaxLine) /\ b \in Nat /\ room \in Nat
        /\ Numbered(ls, b)
    BY <1>3, <1>5, <1>6, <1>7 DEF Numbered
  <2> HIDE DEF over
  <2>3. kept' = SubSeq(ls, over + 1, Len(ls)) \o kept
    BY <1>8
  <2>4. TailPlan(kept', ls, kept, b, over, room)
    BY <2>1, <2>2, <2>3 DEF TailPlan
  <2>5. TailJoined(kept', ls, kept, b, over, room)
    BY <2>4, TailTaken
  <2>6. QED
    BY <2>5 DEF TailJoined
<1>10. over + q = Len(ls) /\ q \in Nat /\ over \in Nat
  <2> HIDE DEF over
  <2>1. QED
    BY <1>9
<1> HIDE DEF over, q
<1>11. \A k \in 1..Len(kept') : k \in 1..q \/ \E l \in 1..Len(kept) : k = q + l
  <2>1. ASSUME NEW k \in 1..Len(kept'), k \notin 1..q
        PROVE  k - q \in 1..Len(kept) /\ k = q + (k - q)
    BY <1>3, <1>9, <1>10, <2>1
  <2>2. QED
    BY <2>1
\* The names that are left are those of older files.
<1>12. /\ plan' \in Seq(0..turned) /\ Len(plan') = Len(plan) - 1
       /\ \A i \in 1..Len(plan') : plan'[i] = plan[i + 1] /\ i + 1 \in 1..Len(plan)
       /\ plan[1] = Head(plan) /\ 1 \in 1..Len(plan)
  <2>1. /\ plan' \in Seq(0..turned) /\ Len(plan') = Len(plan) - 1
        /\ \A i \in 1..Len(plan') : plan'[i] = plan[i + 1]
    BY <1>1, <1>3, HeadTailProperties
  <2>2. plan[1] = Head(plan)
    BY <1>1, <1>3
  <2>3. \A i \in 1..Len(plan') : i + 1 \in 1..Len(plan)
    BY <1>3, <2>1
  <2>4. 1 \in 1..Len(plan)
    BY <1>3
  <2>5. QED
    BY <2>1, <2>2, <2>3, <2>4
<1>13. /\ Listed = {plan[i] : i \in 1..Len(plan)}
       /\ Listed' = {plan'[i] : i \in 1..Len(plan')} /\ Names' = Names
  <2>1. DOMAIN plan = 1..Len(plan) /\ DOMAIN plan' = 1..Len(plan')
    BY <1>3, <1>12, LenProperties
  <2>2. QED
    BY <1>1, <2>1 DEF Listed, Names
<1>14. Descending(plan)
  BY <1>1, <1>2 DEF ExportInv
<1>15. \A i \in 1..Len(plan) : i # 1 => NewerThan(plan[1], plan[i]) /\ plan[i] # 0
  <2>1. \A i \in 1..Len(plan) : i # 1 => 1 < i
    BY <1>3
  <2>2. QED
    BY <1>12, <1>14, <2>1 DEF Descending, NewerThan
<1>16. ASSUME NEW x \in Listed'
       PROVE  x \in Listed /\ NewerThan(files[p].name, x) /\ x # 0
  <2>1. PICK i \in 1..Len(plan') : x = plan'[i]
    BY <1>13
  <2>2. x = plan[i + 1] /\ i + 1 \in 1..Len(plan) /\ i + 1 # 1
    BY <1>12, <2>1
  <2>3. NewerThan(plan[1], plan[i + 1]) /\ plan[i + 1] # 0
    BY <1>15, <2>2
  <2>4. QED
    BY <1>4, <1>12, <1>13, <2>2, <2>3
<1>17. files[p].name \in Listed
  BY <1>4, <1>12, <1>13
<1>18. ASSUME NEW i \in 1..Len(files), files[i].name \in Listed'
       PROVE  files[i].name \in Listed /\ i < p
  BY <1>2, <1>16, <1>18, NamesTellAge
<1>19. Descending(plan)'
  <2>1. ASSUME NEW i \in 1..Len(plan'), NEW k \in 1..Len(plan'), i < k
        PROVE  NewerThan(plan'[i], plan'[k])
    <3>1. i + 1 \in 1..Len(plan) /\ k + 1 \in 1..Len(plan) /\ i + 1 < k + 1
      BY <1>12, <2>1
    <3>2. NewerThan(plan[i + 1], plan[k + 1])
      BY <1>14, <3>1 DEF Descending
    <3>3. QED
      BY <1>12, <3>2
  <2>2. QED
    BY <2>1 DEF Descending
\* The file's lines come before those kept.
<1>20. \A k \in 1..Len(kept) : b + Len(ls) < kept[k]
  BY <1>2, <1>6, <1>17 DEF ExportInv, b
<1>21. \A k \in 1..Len(kept) : kept[k] \in 1..MaxLine /\ kept[k] \in Nat
  BY <1>3, ElementOfSeq, LogAssumption
<1>22. \A i, k \in 1..Len(kept) : i < k => kept[i] < kept[k]
  <2>1. DOMAIN kept = 1..Len(kept)
    BY <1>3, LenProperties
  <2>2. QED
    BY <1>2, <2>1 DEF ExportInv, Ascending
<1>23. Ascending(kept)'
  <2>1. ASSUME NEW i \in 1..Len(kept'), NEW k \in 1..Len(kept'), i < k
        PROVE  kept'[i] < kept'[k]
    <3>1. CASE i \in 1..q /\ k \in 1..q
      <4>1. kept'[i] = b + over + i /\ kept'[k] = b + over + k
        BY <1>9, <3>1
      <4>2. QED
        BY <1>6, <1>10, <2>1, <3>1, <4>1
    <3>2. CASE i \in 1..q /\ k \notin 1..q
      <4>1. PICK l \in 1..Len(kept) : k = q + l
        BY <1>11, <3>2
      <4>2. kept'[i] = b + over + i /\ kept'[k] = kept[l]
        BY <1>9, <3>2, <4>1
      <4>3. b + Len(ls) < kept[l] /\ kept[l] \in Nat
        BY <1>20, <1>21
      <4>4. b + over + i <= b + Len(ls)
        BY <1>6, <1>9, <1>10, <3>2
      <4>5. QED
        BY <1>6, <1>9, <1>10, <4>2, <4>3, <4>4
    <3>3. CASE i \notin 1..q
      <4>1. PICK l \in 1..Len(kept) : i = q + l
        BY <1>11, <3>3
      <4>2. k \notin 1..q
        BY <1>10, <2>1, <4>1
      <4>3. PICK m \in 1..Len(kept) : k = q + m
        BY <1>11, <4>2
      <4>4. l < m
        BY <1>10, <2>1, <4>1, <4>3
      <4>5. kept[l] < kept[m]
        BY <1>22, <4>4
      <4>6. kept'[i] = kept[l] /\ kept'[k] = kept[m]
        BY <1>9, <4>1, <4>3
      <4>7. QED
        BY <4>5, <4>6
    <3>4. QED
      BY <3>1, <3>2, <3>3
  <2>2. DOMAIN kept' = 1..Len(kept')
    BY <1>9, LenProperties
  <2>3. QED
    BY <2>1, <2>2 DEF Ascending
<1>24. Len(kept') <= budget'
  BY <1>1, <1>3, <1>7, <1>9, <1>10
<1>25. ASSUME NEW i \in 1..Len(files), NEW k \in 1..Len(kept'), files[i].name \in Listed'
       PROVE  Prior(files, written, i) + Size(files, i) < kept'[k]
  <2>1. files[i].name \in Listed /\ i < p
    BY <1>18, <1>25
  <2>2. Prior(files, written, i) + Size(files, i) <= b
    BY <1>2, <2>1 DEF FilesOk, b
  <2>3. Prior(files, written, i) \in Nat /\ Size(files, i) \in Nat
    BY <1>2 DEF FilesOk
  <2>4. CASE k \in 1..q
    <3>1. kept'[k] = b + over + k
      BY <1>9, <2>4
    <3>2. QED
      BY <1>6, <1>10, <2>2, <2>3, <2>4, <3>1
  <2>5. CASE k \notin 1..q
    <3>1. PICK l \in 1..Len(kept) : k = q + l
      BY <1>11, <2>5
    <3>2. kept'[k] = kept[l]
      BY <1>9, <3>1
    <3>3. QED
      BY <1>2, <2>1, <3>2 DEF ExportInv
  <2>6. QED
    BY <2>4, <2>5
\* Without a rotation, it is the newest of those left, and what is kept begins
\* where it ends.
<1>26. ASSUME NEW m, Gapless(m) PROVE Gapless(m - 1)'
  <2>1. /\ m \in 0..Len(files) /\ Listed \subseteq Names /\ Contiguous(kept)
        /\ kept # <<>> => m < Len(files) /\ kept[1] = Prior(files, written, m + 1) + 1
        /\ \A i \in 1..Len(files) : files[i].name \in Listed <=> i <= m
        /\ Len(files) \in Nat
    BY <1>1, <1>2, <1>26, NamesTellAge DEF Gapless
  <2>2. p <= m
    BY <1>17, <2>1
  <2>3. p = m
    <3>1. SUFFICES ASSUME p # m PROVE FALSE
      OBVIOUS
    <3>2. m \in 1..Len(files) /\ p < m
      BY <2>1, <2>2, <3>1
    <3>3. files[m].name \in Listed
      BY <2>1, <3>2
    <3>4. PICK i \in 1..Len(plan) : files[m].name = plan[i]
      BY <1>13, <3>3
    <3>5. CASE i = 1
      <4>1. files[m].name = files[p].name
        BY <1>4, <1>12, <3>4, <3>5
      <4>2. QED
        BY <1>2, <3>1, <3>2, <4>1, NamesTellAge
    <3>6. CASE i # 1
      <4>1. NewerThan(files[p].name, files[m].name)
        BY <1>4, <1>12, <1>15, <3>4, <3>6
      <4>2. m < p
        BY <1>2, <3>2, <4>1, NamesTellAge
      <4>3. QED
        BY <2>1, <3>2, <4>2
    <3>7. QED
      BY <3>5, <3>6
  <2>4. m \in 1..Len(files) /\ m - 1 \in 0..Len(files) /\ m - 1 < Len(files)
        /\ (m - 1) + 1 = m
    BY <2>1, <2>3
  <2>5. Listed' \subseteq Names'
    BY <1>13, <1>16, <2>1
  <2>6. ASSUME NEW i \in 1..Len(files) PROVE files[i].name \in Listed' <=> i <= m - 1
    <3>1. ASSUME files[i].name \in Listed' PROVE i <= m - 1
      BY <1>18, <2>3, <2>4, <3>1
    <3>2. ASSUME i <= m - 1 PROVE files[i].name \in Listed'
      <4>1. i <= m /\ i # p
        BY <2>3, <2>4, <3>2
      <4>2. files[i].name \in Listed /\ files[i].name # files[p].name
        BY <1>2, <2>1, <4>1, NamesTellAge
      <4>3. PICK k \in 1..Len(plan) : files[i].name = plan[k]
        BY <1>13, <4>2
      <4>4. k # 1
        BY <1>4, <1>12, <4>2, <4>3
      <4>5. k - 1 \in 1..Len(plan') /\ (k - 1) + 1 = k
        BY <1>3, <1>12, <4>4
      <4>6. plan'[k - 1] = plan[k]
        BY <1>12, <4>5
      <4>7. QED
        BY <1>13, <4>3, <4>5, <4>6
    <3>3. QED
      BY <3>1, <3>2
  <2>7. CASE kept = <<>>
    <3>1. Len(kept) = 0 /\ Len(kept') = q
      BY <1>9, <1>10, <2>7, EmptySeq
    <3>2. \A k \in 1..q : kept'[k] = b + over + k
      BY <1>9
    <3>3. Contiguous(kept')
      <4>1. ASSUME NEW k \in 1..q PROVE kept'[k] = kept'[1] + k - 1
        <5>1. 1 \in 1..q
          BY <1>10
        <5>2. kept'[1] = b + over + 1 /\ kept'[k] = b + over + k
          BY <3>2, <5>1
        <5>3. QED
          BY <1>6, <1>10, <5>2
      <4>2. QED
        BY <3>1, <4>1 DEF Contiguous
    <3>4. kept' # <<>> /\ Len(kept') < budget =>
            kept'[1] = Prior(files, written, m) + 1
      <4>1. SUFFICES ASSUME kept' # <<>>, q < budget
                     PROVE  kept'[1] = Prior(files, written, m) + 1
        BY <3>1
      <4>2. 1 \in 1..q
        <5>1. Len(kept') # 0
          BY <1>9, <4>1, EmptySeq
        <5>2. QED
          BY <1>10, <3>1, <5>1
      <4>3. over = 0
        BY <1>7, <1>9, <3>1, <4>1
      <4>4. kept'[1] = b + over + 1 /\ b = Prior(files, written, m)
        BY <2>3, <3>2, <4>2 DEF b
      <4>5. QED
        BY <1>6, <4>3, <4>4
    <3>5. kept' = <<>> => Len(files) <= m
      <4>1. SUFFICES ASSUME kept' = <<>> PROVE p = Len(files)
        BY <1>2, <2>3, NamesTellAge
      <4>2. q = 0
        BY <3>1, <4>1, EmptySeq
      <4>3. Len(ls) = 0
        BY <1>7, <1>9, <1>10, <4>2
      <4>4. QED
        BY <1>6, <4>3
    <3>6. QED
      BY <1>1, <2>4, <2>5, <2>6, <3>3, <3>4, <3>5 DEF Gapless
  <2>8. CASE kept # <<>>
    <3>1. m < Len(files) /\ kept[1] = Prior(files, written, m + 1) + 1
      BY <2>1, <2>8
    <3>2. Len(kept) # 0 /\ 1 \in 1..Len(kept)
      <4>1. Len(kept) # 0
        BY <1>3, <2>8, EmptySeq
      <4>2. QED
        BY <1>3, <4>1
    <3>3. Prior(files, written, m + 1) = b + Len(ls)
      <4>1. m \in 1..(Len(files) - 1)
        BY <2>1, <2>4, <3>1
      <4>2. Prior(files, written, m + 1) = Prior(files, written, m) + Size(files, m)
        BY <1>2, <4>1 DEF FilesOk
      <4>3. QED
        BY <1>6, <2>3, <4>2 DEF b
    <3>4. Len(ls) >= 1 /\ 1 \in 1..q
      <4>1. Len(ls) >= 1
        BY <1>6, <2>1, <2>3, <3>1
      <4>2. q # 0
        BY <1>7, <1>9, <1>10, <4>1
      <4>3. QED
        BY <1>10, <4>1, <4>2
    <3>5. kept'[1] = b + over + 1
      BY <1>9, <3>4
    <3>6. Contiguous(kept')
      <4>1. ASSUME NEW k \in 1..Len(kept') PROVE kept'[k] = kept'[1] + k - 1
        <5>1. CASE k \in 1..q
          <6>1. kept'[k] = b + over + k
            BY <1>9, <5>1
          <6>2. QED
            BY <1>6, <1>10, <3>5, <6>1
        <5>2. CASE k \notin 1..q
          <6>1. PICK l \in 1..Len(kept) : k = q + l
            BY <1>11, <5>2
          <6>2. kept'[k] = kept[l]
            BY <1>9, <6>1
          <6>3. kept[l] = kept[1] + l - 1
            BY <2>1 DEF Contiguous
          <6>4. kept[1] = b + Len(ls) + 1
            BY <1>6, <1>9, <3>1, <3>3
          <6>5. kept'[k] = b + Len(ls) + 1 + l - 1 /\ Len(ls) \in Nat
            BY <1>9, <6>2, <6>3, <6>4
          <6>6. b + Len(ls) + 1 + l - 1 = b + over + 1 + (q + l) - 1
            <7> DEFINE n == Len(ls)
            <7>1. over + q = n /\ over \in Nat /\ q \in Nat /\ b \in Nat /\ l \in Int /\ n \in Nat
              BY <1>6, <1>10, <6>5
            <7> HIDE DEF n
            <7>2. b + n + 1 + l - 1 = b + over + 1 + (q + l) - 1
              BY <7>1
            <7>3. QED
              BY <7>2 DEF n
          <6>7. QED
            BY <3>5, <6>1, <6>5, <6>6
        <5>3. QED
          BY <5>1, <5>2
      <4>2. QED
        BY <4>1 DEF Contiguous
    <3>7. Len(kept') < budget => kept'[1] = Prior(files, written, m) + 1
      <4>1. SUFFICES ASSUME Len(kept') < budget PROVE kept'[1] = Prior(files, written, m) + 1
        OBVIOUS
      <4>2. q < room
        BY <1>3, <1>7, <1>9, <1>10, <4>1
      <4>3. over = 0 /\ b = Prior(files, written, m)
        BY <1>9, <2>3, <4>2 DEF b
      <4>4. QED
        BY <1>6, <3>5, <4>3
    <3>8. kept' # <<>>
      BY <1>10, <3>4, EmptySeq, <1>9
    <3>9. QED
      BY <1>1, <2>4, <2>5, <2>6, <3>6, <3>7, <3>8 DEF Gapless
  <2>9. QED
    BY <2>7, <2>8
<1>27. (job \in {"sorted", "over"} /\ ~moved => \E m : Gapless(m))'
  BY <1>1, <1>2, <1>26 DEF ExportInv
<1>28. ExportTypes'
  BY <1>1, <1>2, <1>9, <1>12 DEF ExportInv, ExportTypes
<1>29. 0 \notin Listed'
  BY <1>16
<1>30. ExportInv'
  BY <1>1, <1>19, <1>23, <1>24, <1>25, <1>27, <1>28, <1>29 DEF ExportInv
<1>31. QED
  BY <1>1, <1>2, <1>30 DEF LogInv

\* No line is there twice or out of order, the budget is kept, and without a rotation
\* there is no gap, and something unless there is no rotated file.
LEMMA ExportIs == ASSUME LogInv PROVE ExportIsTheTail
<1>1. FilesOk(files, written, turned) /\ ExportInv
  BY DEF LogInv
<1>2. Ascending(kept) /\ Len(kept) <= budget
  BY <1>1 DEF ExportInv
<1>3. ASSUME job = "over", ~error, ~moved, kept # <<>>
      PROVE  /\ kept[Len(kept)] - kept[1] + 1 = Len(kept)
             /\ Len(kept) < budget => kept[1] = written - Held + 1
  <2> DEFINE n == Len(kept)
             first == kept[1]
             low == Prior(files, written, 1)
  <2>1. PICK m : Gapless(m)
    BY <1>1, <1>3 DEF ExportInv
  <2>2. n \in Nat /\ n # 0 /\ kept \in Seq(1..MaxLine)
    BY <1>1, <1>3, LenProperties, EmptySeq DEF ExportInv, ExportTypes
  <2>3. first \in Nat /\ n \in 1..n
    <3>1. n \in 1..n /\ 1 \in 1..n
      BY <2>2
    <3>2. first \in 1..MaxLine
      BY <2>2, <3>1, ElementOfSeq
    <3>3. QED
      BY <3>1, <3>2, LogAssumption
  <2>4. kept[n] = first + n - 1
    BY <2>1, <2>3 DEF Gapless, Contiguous
  <2>5. n < budget => m = 0 /\ first = Prior(files, written, m + 1) + 1
    BY <1>3, <2>1 DEF Gapless
  <2>6. low \in Nat /\ written \in Nat /\ Held = written - low
    <3>1. 1 \in 1..Len(files)
      BY <1>1, NamesTellAge
    <3>2. QED
      BY <1>1, <3>1, HeldIs DEF FilesOk
  <2>7. n < budget => first = low + 1
    <3>1. 0 + 1 = 1
      OBVIOUS
    <3>2. QED
      BY <2>5, <3>1
  <2> HIDE DEF n, first, low
  <2>8. kept[n] - first + 1 = n /\ (n < budget => first = written - Held + 1)
    BY <2>2, <2>3, <2>4, <2>6, <2>7
  <2>9. QED
    BY <2>8 DEF n, first
<1>4. ASSUME job = "over", ~error, ~moved, kept = <<>>, Len(kept) < budget
      PROVE  Len(files) = 1
  <2>1. PICK m : Gapless(m)
    BY <1>1, <1>4 DEF ExportInv
  <2>2. m = 0 /\ 0 < budget
    BY <1>4, <2>1, EmptySeq DEF Gapless
  <2> DEFINE n == Len(files)
  <2>3. n <= 0 + 1
    BY <1>4, <2>1, <2>2 DEF Gapless
  <2>4. n \in Nat /\ n >= 1
    BY <1>1, NamesTellAge
  <2> HIDE DEF n
  <2>5. n = 1
    BY <2>3, <2>4
  <2>6. QED
    BY <2>5 DEF n
<1>5. QED
  BY <1>2, <1>3, <1>4 DEF ExportIsTheTail

LEMMA LogKept == ASSUME LogInv, [Next]_vars PROVE LogInv'
<1>1. CASE LogNext
  BY <1>1, WriteLineKept, RotateKept, ReadDirKept, SortFilesKept, ReadFileKept, OverKept
     DEF LogNext, LogStep
<1>2. CASE UNCHANGED logVars
  BY <1>2, LogUnmoved
<1>3. QED
  BY <1>1, <1>2 DEF Next, HealthNext, OverlayNext, CountdownNext, PresenceNext, vars

-----------------------------------------------------------------------------
(* The types *)

\* Each part's types, with what its types rest on.
ShellTypes ==
  /\ os \in Systems /\ part \in Parts
  /\ HealthTypes /\ VerdictTypes /\ PresenceTypeOK /\ CountdownTypes
  /\ OverlayInv /\ LogInv

LEMMA ShellTypesStart == ASSUME Init PROVE ShellTypes
BY HealthTypesStart, PresenceTypesStart, CountdownTypesStart, OverlayStart, LogStart
   DEF Init, ShellTypes

LEMMA ShellTypesKept == ASSUME ShellTypes, [Next]_vars PROVE ShellTypes'
<1>1. OverlayInv' /\ LogInv'
  BY OverlayKept, LogKept DEF ShellTypes
<1>2. os' \in Systems /\ part' \in Parts
  BY DEF ShellTypes, Next, HealthNext, OverlayNext, CountdownNext, PresenceNext, LogNext, vars
<1>3. HealthTypes' /\ VerdictTypes'
  <2>1. CASE HealthNext
    BY <2>1, HealthTypesKept, VerdictTypesKept DEF ShellTypes, HealthNext
  <2>2. CASE UNCHANGED bannerVars
    BY <2>2
       DEF ShellTypes, HealthTypes, VerdictTypes, bannerVars, envVars, healthVars, actorVars
  <2>3. QED
    BY <2>1, <2>2 DEF Next, OverlayNext, CountdownNext, PresenceNext, LogNext, vars
<1>4. PresenceTypeOK'
  <2>1. CASE PresenceNext
    BY <2>1, PresenceTypesKept DEF ShellTypes, PresenceNext
  <2>2. CASE UNCHANGED presenceVars
    BY <2>2 DEF ShellTypes, PresenceTypeOK, presenceVars
  <2>3. QED
    BY <2>1, <2>2 DEF Next, HealthNext, OverlayNext, CountdownNext, LogNext, vars
<1>5. CountdownTypes'
  <2>1. CASE CountdownNext
    BY <2>1, ClickTypesKept, WindowTypesKept, PressTypesKept, SoundTypesKept
       DEF ShellTypes, CountdownNext, CountdownTypes
  <2>2. CASE UNCHANGED countdownVars
    BY <2>2
       DEF ShellTypes, CountdownTypes, ClickTypes, WindowTypes, PressTypes, SoundTypes,
           countdownVars, clickVars, aimVars, spotVars, pressVars, soundVars
  <2>3. QED
    BY <2>1, <2>2 DEF Next, HealthNext, OverlayNext, PresenceNext, LogNext, vars
<1>6. QED
  BY <1>1, <1>2, <1>3, <1>4, <1>5 DEF ShellTypes

LEMMA ShellIsTyped == ASSUME ShellTypes PROVE TypeOK
<1>1. HealthTypeOK
  BY DEF ShellTypes, HealthTypes, VerdictTypes, HealthTypeOK
<1>2. OverlayTypeOK /\ CountdownTypeOK /\ PresenceTypeOK /\ LogTypeOK
  BY CountdownIsTyped, LogTypes DEF ShellTypes, OverlayInv
<1>3. QED
  BY <1>1, <1>2 DEF ShellTypes, TypeOK

-----------------------------------------------------------------------------
(* The theorems *)

LEMMA OverlaysHold == Spec => []OverlayInv
BY OverlayStart, OverlayKept, PTL DEF Spec

\* A rebind never leaves the player without a toggle.
THEOREM HotkeysAreBound == Spec => []HotkeyIsBound
<1>1. OverlayInv => HotkeyIsBound
  BY DEF OverlayInv
<1>2. QED
  BY <1>1, OverlaysHold, PTL

\* An overlay shown by the hotkey floats above the game once the main window's blur is
\* handled, until it has the focus itself and loses it.
THEOREM OverlaysFloat == Spec => []OverlayFloats
<1>1. OverlayInv => OverlayFloats
  BY DEF OverlayInv
<1>2. QED
  BY <1>1, OverlaysHold, PTL

\* The overlay comes back on a screen that is there.
THEOREM OverlaysAreReachable == Spec => []OverlayIsReachable
<1>1. OverlayInv => OverlayIsReachable
  BY DEF OverlayInv
<1>2. QED
  BY <1>1, OverlaysHold, PTL

\* Once the commands are taken, the profile shows the last of them or nothing.
THEOREM ProfilesAreNeverOutdated == Spec => []NeverOutdated
<1>1. PresenceInv => NeverOutdated
  BY DEF PresenceInv
<1>2. QED
  BY <1>1, PresenceStart, PresenceKept, PTL DEF Spec

\* The click lands on the game's button, for any sizes and windows, and the
\* outcome says what happened.
THEOREM ClicksAreTheGames == Spec => []ClickIsTheGames
<1>1. ClickInv => ClickIsTheGames
  BY DEF ClickInv
<1>2. QED
  BY <1>1, ClickStart, ClickKept, PTL DEF Spec

\* The loop leaves no banner over a closed game, whatever the diagnostics do.
THEOREM LoopsLeaveNoBanner == Spec => []LoopLeavesNoBanner
<1>1. BannerInv => LoopLeavesNoBanner
  BY DEF BannerInv, LoopLeavesNoBanner, At
<1>2. QED
  BY <1>1, BannerStart, BannerKept, PTL DEF Spec

\* With one diagnostic at a time, and three failures in a row to escalate, a
\* service that never broke never arms the banner.
THEOREM NoFalseAlarms == OneDiagnostic => (Spec => []NoFalseAlarm)
<1>1. SUFFICES ASSUME OneDiagnostic PROVE Spec => []NoFalseAlarm
  OBVIOUS
<1>2. Init => CalmInv
  BY <1>1, CalmStart
<1>3. CalmInv /\ [Next]_vars => CalmInv'
  BY <1>1, CalmKept
<1>4. CalmInv => NoFalseAlarm
  BY DEF CalmInv, Calm, NoFalseAlarm
<1>5. QED
  BY <1>2, <1>3, <1>4, PTL DEF Spec

\* In every part, with any constants, the variables keep their types; among them the
\* channel of the presence its bound, the streak its own, and the jingle is one.
THEOREM ShellKeepsTypes == Spec => []TypeOK
BY ShellTypesStart, ShellTypesKept, ShellIsTyped, PTL DEF Spec

\* Whatever the files, the budget and the rotations, the lines exported are in the order
\* of writing, none is there twice, and the budget is kept; unless a rotation came in
\* between there is no gap, and an export shorter than the budget begins with the oldest
\* line the files hold, or is empty when no file was rotated.
THEOREM ExportsAreTheTail == Spec => []ExportIsTheTail
<1>1. Init => LogInv
  BY LogStart DEF Init
<1>2. QED
  BY <1>1, LogKept, ExportIs, PTL DEF Spec
==============================================================================
