---------------------------- MODULE CaptureHealth ----------------------------
(***************************************************************************)
(* What the desktop app concludes from the captures it asks of the service *)
(* (diagnostics.rs): the health state behind the repair banner, written by *)
(* the detection loop and by the diagnostics of the help page, which run   *)
(* on other threads and share it, the streak of failures and the flag that *)
(* pauses the loop.                                                        *)
(*                                                                         *)
(* The pipe is that of CapturePipe seen from the app: it has one holder.   *)
(* The connect budgets and windows are an order, not a clock: a live       *)
(* attempt gives up before a diagnostic's capture is over, a diagnostic    *)
(* waits a live window out but not another diagnostic's.                   *)
(*                                                                         *)
(* Operators named X_Y and commented (fault) are not part of the model.    *)
(***************************************************************************)
EXTENDS Naturals

CONSTANTS
  Live,      \* the detection loop
  Diag,      \* the diagnostics that may run at once
  Nil,
  Escalate   \* TRANSIENT_ESCALATE_AFTER

ASSUME HealthAssumption ==
  /\ Live \notin Diag
  /\ Nil \notin Diag \cup {Live}
  /\ Escalate \in Nat \ {0}

VARIABLES
  elevated,  \* process_is_elevated: fixed when the process starts
  game,      \* the game process exists
  api,       \* game_status is Closed, or is not
  service,   \* what is at the other end of the pipe
  broken,    \* the service has not always been up (history)
  holder,    \* who the service is capturing for
  flag,      \* DIAGNOSTIC_IN_PROGRESS
  state,     \* capture_health_state::STATE
  streak,    \* TRANSIENT_STREAK, up to Escalate
  pc,        \* pc[a]: where the actor is in its capture
  outcome,   \* outcome[a]: what its capture came to
  seen,      \* seen[a]: the streak it was told
  late       \* a diagnostic has stored its verdict since the loop saw the game
             \* gone, or before it saw it at all (history)

envVars    == <<elevated, game, service, broken>>
healthVars == <<state, streak>>
actorVars  == <<pc, outcome, seen>>
bannerVars == <<envVars, api, holder, flag, healthVars, actorVars, late>>

Actor   == Diag \cup {Live}
Failure == {"transient", "unreachable", "incompatible"}
Health  == {"ok", "unreachable", "incompatible", "degraded"}

\* What the frontend's banner is armed by.
Repair == {"unreachable", "incompatible"}

HealthTypeOK ==
  /\ late \in BOOLEAN
  /\ elevated \in BOOLEAN /\ game \in BOOLEAN /\ broken \in BOOLEAN
  /\ api \in {"Closed", "Open"}
  /\ service \in {"up", "down", "skewed", "wedged"}
  /\ holder \in Actor \cup {Nil}
  /\ flag \in BOOLEAN
  /\ state \in Health
  /\ streak \in 0..Escalate
  /\ pc \in [Actor -> {"idle", "reset", "connect", "capture", "count",
                       "store", "finish"}]
  /\ outcome \in [Actor -> Failure \cup {"ok"}]
  /\ seen \in [Actor -> 0..Escalate]

HealthInit ==
  /\ elevated \in BOOLEAN
  /\ game = FALSE /\ api = "Closed"
  /\ service = "up" /\ broken = FALSE /\ holder = Nil
  /\ flag = FALSE /\ state = "ok" /\ streak = 0
  /\ pc = [a \in Actor |-> "idle"]
  /\ outcome = [a \in Actor |-> "ok"]
  /\ seen = [a \in Actor |-> 0]
  /\ late = FALSE

At(a, l)   == pc[a] = l
Goto(a, l) == pc' = [pc EXCEPT ![a] = l]

-----------------------------------------------------------------------------
(* The world *)

GameStarts == ~game /\ game' = TRUE /\ UNCHANGED <<elevated, service, broken>>
GameExits  == game /\ game' = FALSE /\ UNCHANGED <<elevated, service, broken>>

\* Stopped, updated on one side only, stuck, repaired.
ServiceTurns ==
  /\ \E s \in {"up", "down", "skewed", "wedged"} \ {service} : service' = s
  /\ broken' = TRUE
  /\ UNCHANGED <<elevated, game>>

World ==
  /\ GameStarts \/ GameExits \/ ServiceTurns
  /\ UNCHANGED <<api, holder, flag, healthVars, actorVars, late>>

-----------------------------------------------------------------------------
(* The detection loop *)

\* (fault) the status is left for the next transition to reset
SeesClosed_NoReset ==
  /\ At(Live, "idle") /\ ~game /\ api # "Closed"
  /\ api' = "Closed" /\ late' = FALSE
  /\ UNCHANGED <<envVars, holder, flag, healthVars, actorVars>>

\* No process: the transition to Closed resets the health.
SeesClosed ==
  /\ At(Live, "idle") /\ ~game /\ api # "Closed"
  /\ api' = "Closed" /\ state' = "ok" /\ late' = FALSE
  /\ Goto(Live, "reset")
  /\ UNCHANGED <<envVars, holder, flag, streak, outcome, seen>>

\* reset_capture_health's second store
ResetStreak ==
  /\ At(Live, "reset")
  /\ streak' = 0 /\ Goto(Live, "idle")
  /\ UNCHANGED <<envVars, api, holder, flag, state, outcome, seen, late>>

SeesNoSockets ==
  /\ At(Live, "idle") /\ game
  /\ api' = "Open"
  /\ UNCHANGED <<envVars, holder, flag, healthVars, actorVars, late>>

\* A cycle is held while a diagnostic has the flag up, else it captures.
StartsWindow ==
  /\ At(Live, "idle") /\ game /\ ~flag
  /\ Goto(Live, "connect")
  /\ UNCHANGED <<envVars, api, holder, flag, healthVars, outcome, seen, late>>

WindowDone ==
  /\ At(Live, "finish")
  /\ api' = "Open" /\ Goto(Live, "idle")
  /\ UNCHANGED <<envVars, holder, flag, healthVars, outcome, seen, late>>

-----------------------------------------------------------------------------
(* The diagnostic *)

\* run_server_diagnostic: refused without the game's process
StartDiagnostic(d) ==
  /\ At(d, "idle") /\ game
  /\ flag' = TRUE /\ Goto(d, "connect")
  /\ UNCHANGED <<envVars, api, holder, healthVars, outcome, seen, late>>

\* PauseLiveDetection is dropped.
DiagnosticDone(d) ==
  /\ At(d, "finish")
  /\ flag' = FALSE /\ Goto(d, "idle")
  /\ UNCHANGED <<envVars, api, holder, healthVars, outcome, seen, late>>

-----------------------------------------------------------------------------
(* A capture, whoever asked for it: capture_windows_blocking *)

\* a's connect budget is used up while the service captures for h.
GivesUpOn(a, h) == a # h /\ (a = Live \/ h # Live)

\* What it makes of that: busy, or, when its time ends in the gap after that
\* capture, absent.  A live attempt under a lone diagnostic ends long before: it
\* began before the flag was up.
GivenUp(a) == {"transient"} \cup (IF a # Live \/ ~flag THEN {"unreachable"} ELSE {})

Result(a, o) == outcome' = [outcome EXCEPT ![a] = o] /\ Goto(a, "count")

Connect(a) ==
  /\ At(a, "connect") /\ service = "up" /\ holder = Nil
  /\ holder' = a
  /\ Goto(a, "capture")
  /\ UNCHANGED <<envVars, api, flag, healthVars, outcome, seen, late>>

\* The ClientError of request_capture, folded to a ServiceFailure.
ConnectFails(a) ==
  /\ At(a, "connect")
  /\ \/ service = "down" /\ Result(a, "unreachable")
     \/ service = "wedged" /\ Result(a, "transient")
     \/ service = "skewed" /\ Result(a, "incompatible")
     \/ /\ service = "up" /\ holder # Nil /\ GivesUpOn(a, holder)
        /\ \E o \in GivenUp(a) : Result(a, o)
  /\ UNCHANGED <<envVars, api, holder, flag, healthVars, seen, late>>

Served(a) ==
  /\ At(a, "capture") /\ service = "up"
  /\ holder' = Nil
  /\ Result(a, "ok")
  /\ UNCHANGED <<envVars, api, flag, healthVars, seen, late>>

\* The service stops answering, or is gone, in the middle of the capture.
CaptureLost(a) ==
  /\ At(a, "capture") /\ service # "up"
  /\ holder' = Nil
  /\ Result(a, IF service = "wedged" THEN "transient" ELSE "unreachable")
  /\ UNCHANGED <<envVars, api, flag, healthVars, seen, late>>

\* (fault) a served window leaves the streak as it is
Counted_Total(a, n) == IF outcome[a] = "transient" /\ n < Escalate THEN n + 1 ELSE n

\* The streak after a's outcome.
Counted(a, n) ==
  IF outcome[a] # "transient" THEN 0 ELSE IF n < Escalate THEN n + 1 ELSE n

\* count_transient or reset_transients: the first of two steps on shared state
Count(a) ==
  /\ At(a, "count")
  /\ streak' = Counted(a, streak)
  /\ seen' = [seen EXCEPT ![a] = Counted(a, streak)]
  /\ Goto(a, "store")
  /\ UNCHANGED <<envVars, api, holder, flag, state, outcome, late>>

\* (fault) a busy service is never a broken one
Decide_Patient(o, n) ==
  IF o = "ok" THEN "ok"
  ELSE IF o = "transient" THEN state
  ELSE IF elevated THEN "degraded" ELSE o

\* decide_health, and what capture_windows_blocking stores for the decision
Decide(o, n) ==
  IF o = "ok" THEN "ok"
  ELSE IF o = "transient" /\ n < Escalate THEN state
  ELSE IF elevated THEN "degraded"
  ELSE IF o = "transient" THEN "unreachable" ELSE o

Store(a) ==
  /\ At(a, "store")
  /\ state' = Decide(outcome[a], seen[a])
  /\ seen' = [seen EXCEPT ![a] = 0]
  /\ outcome' = [outcome EXCEPT ![a] = "ok"]
  /\ late' = (late \/ (a # Live /\ api = "Closed"))
  /\ Goto(a, "finish")
  /\ UNCHANGED <<envVars, api, holder, flag, streak>>

CaptureStep(a) ==
  \/ Connect(a) \/ ConnectFails(a) \/ Served(a) \/ CaptureLost(a)
  \/ Count(a) \/ Store(a)

HealthStep ==
  \/ World
  \/ SeesClosed \/ ResetStreak \/ SeesNoSockets \/ StartsWindow \/ WindowDone
  \/ \E d \in Diag : StartDiagnostic(d) \/ DiagnosticDone(d)
  \/ \E a \in Actor : CaptureStep(a)

\* The threads run on.  The loop comes round for ever, and a game that runs has
\* sockets again and again; nobody has to start a diagnostic.
HealthFairness ==
  /\ WF_bannerVars(SeesClosed) /\ WF_bannerVars(ResetStreak) /\ WF_bannerVars(WindowDone)
  /\ SF_bannerVars(StartsWindow)
  /\ \A a \in Actor : WF_bannerVars(CaptureStep(a))
  /\ \A d \in Diag : WF_bannerVars(DiagnosticDone(d))

-----------------------------------------------------------------------------
(* Properties *)

\* A service that never broke never arms the banner, however the windows and
\* the diagnostics fall (diagnostics.rs:238-243).
NoFalseAlarm == ~broken => state = "ok"

\* "A player who repairs the service while the game is closed must not keep a
\* stale banner" (diagnostics.rs:278): with the game gone, and everybody done,
\* nothing is armed.
ClosedHasNoBanner ==
  ~game /\ api = "Closed" /\ (\A a \in Actor : At(a, "idle")) => state \notin Repair

\* What the loop armed while the game ran is not left armed once it has seen the
\* game gone: a banner over a closed game comes from a diagnostic that outlived
\* it (reset_capture_health, fetch_informations.rs:605-609).
LoopLeavesNoBanner ==
  api = "Closed" /\ At(Live, "idle") /\ state \in Repair => late

\* While the game runs, a service that stays broken, busy for ever included, is
\* reported again and again (diagnostics.rs:205-209), and one that stays up is
\* found healthy and left alone: the streak that the threads share neither hides
\* the one nor outlives the repair of the other.
VerdictFollowsTheService ==
  /\ <>[](service \in {"down", "skewed", "wedged"} /\ game) => []<>(state # "ok")
  /\ <>[](service = "up" /\ game) => <>[](state = "ok")
==============================================================================
