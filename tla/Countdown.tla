------------------------------ MODULE Countdown ------------------------------
(***************************************************************************)
(* What a countdown asks of the desktop: the jingle, poked at every tick,  *)
(* and at zero the click on the game's "Raise anchor" button (main.rs,     *)
(* window_interaction.rs on Windows, window_interaction_linux.rs and       *)
(* x11_support.rs on Linux).  The foreground can change at any time.       *)
(*                                                                         *)
(* Wait times and the chunks of the walk are left out: a walk is refused   *)
(* or it is not.                                                           *)
(*                                                                         *)
(* Operators named X_Y and commented (fault) are not part of the model.    *)
(***************************************************************************)
EXTENDS Platform, Naturals, FiniteSets

CONSTANTS
  Window,
  Proc,       \* Proc[w]: the process that owns w
  Game,       \* the game's process
  Titled,     \* the windows called "Sea of Thieves"
  Named,      \* the windows that name their owner (_NET_WM_PID)
  Sizes,      \* sizes of a window, as <<width, height>>
  NoWindow

ASSUME CountdownAssumption ==
  /\ Titled \subseteq Window /\ Named \subseteq Window /\ NoWindow \notin Window
  /\ Sizes \subseteq (Nat \X Nat)

VARIABLES
  at,        \* where rise_anchor is: "idle", "find", "owner", "focus",
             \* "check", "recheck", "place", "verify", "press", "release", "over"
  open,      \* the windows there are
  target,    \* the window to click
  unsure,    \* its owner could not be read
  fg,        \* the foreground window
  size,      \* the target's size
  point,     \* where in it the click goes
  refused,   \* an injected event was refused
  answer,   \* the ClickOutcome, or "none"
  pressed,   \* the button was pressed (history)
  landed,    \* the window that got the press, NoWindow for none (history)
  stolen,    \* the foreground changed since it was last verified (history)
  lifted,    \* the button was released (history)
  ringing,      \* SOUND_PLAYING
  jingles    \* the jingles being played: pokes never stack them (main.rs:232-233)

aimVars   == <<open, target, unsure>>
spotVars  == <<size, point>>
pressVars == <<pressed, landed, lifted>>
clickVars == <<at, aimVars, fg, spotVars, refused, answer, pressVars, stolen>>
soundVars == <<ringing, jingles>>
countdownVars == <<clickVars, soundVars>>

Outcome == {"none", "clicked", "game-not-found", "focus-refused",
            "injection-rejected", "failed"}

CountdownTypeOK ==
  /\ at \in {"idle", "find", "owner", "focus", "check", "recheck", "place", "verify",
             "press", "release", "over"}
  /\ open \subseteq Window
  /\ {target, fg, landed} \subseteq Window \cup {NoWindow}
  /\ {unsure, refused, pressed, stolen, lifted, ringing} \subseteq BOOLEAN
  /\ size \in Sizes \cup {<<0, 0>>} /\ point \in Nat \X Nat
  /\ answer \in Outcome
  /\ jingles \in 0..1

NoClick ==
  /\ at = "idle" /\ open = {} /\ target = NoWindow /\ unsure = FALSE /\ fg = NoWindow
  /\ size = <<0, 0>> /\ point = <<0, 0>> /\ refused = FALSE /\ answer = "none"
  /\ pressed = FALSE /\ landed = NoWindow /\ stolen = FALSE /\ lifted = FALSE

CountdownInit == NoClick /\ ringing = FALSE /\ jingles = 0

-----------------------------------------------------------------------------
(* Finding the window *)

Go(to) == at' = to /\ UNCHANGED answer
End(o) == at' = "over" /\ answer' = o

\* The countdown ends, with any windows open and any of them in front.
CallRiseAnchor ==
  /\ at = "idle" /\ at' = "find"
  /\ open' \in SUBSET Window /\ fg' \in open' \cup {NoWindow}
  /\ UNCHANGED <<target, unsure, spotVars, refused, answer, pressVars, stolen, soundVars>>

\* window_is_game, with the game's processes known: the owner decides, and the
\* title only of a window that names none
IsGame(w) == IF w \in Named THEN Proc[w] = Game ELSE w \in Titled

\* On Windows the first window with the title; on Linux, if the game runs, the
\* first that is the game's.
FindWindow ==
  /\ at = "find"
  /\ LET found == IF Windows THEN open \cap Titled
                  ELSE IF \E w \in open : Proc[w] = Game
                    THEN {w \in open : IsGame(w)} ELSE {}
     IN \/ found = {} /\ End(IF Windows THEN "game-not-found" ELSE "failed")
                      /\ UNCHANGED target
        \/ target' \in found /\ Go(IF Windows THEN "owner" ELSE "focus")
  /\ UNCHANGED <<open, unsure, fg, spotVars, refused, pressVars, stolen, soundVars>>

\* No display or no XTEST.
NoX11 ==
  /\ at = "find" /\ Linux /\ End("failed")
  /\ UNCHANGED <<aimVars, fg, spotVars, refused, pressVars, stolen, soundVars>>

\* window_owner: refused only when the owner is known and is another process
CheckOwner ==
  /\ at = "owner"
  /\ \/ unsure' = TRUE /\ Go("focus")
     \/ UNCHANGED unsure
        /\ IF Proc[target] = Game THEN Go("focus") ELSE End("game-not-found")
  /\ UNCHANGED <<open, target, fg, spotVars, refused, pressVars, stolen, soundVars>>

-----------------------------------------------------------------------------
(* Focus *)

InFront == fg # NoWindow /\ Proc[fg] = Proc[target]

\* A request that is honoured is not yet a window in front; on Linux a request
\* that is not honoured does not matter.
Focus ==
  /\ at = "focus"
  /\ \/ fg' \in {fg, target} /\ Go(IF Windows THEN "check" ELSE "place")
     \/ Windows /\ End("focus-refused") /\ UNCHANGED fg
  /\ UNCHANGED <<aimVars, spotVars, refused, pressVars, stolen, soundVars>>

CheckFront ==
  /\ at = "check"
  /\ IF InFront THEN Go("place") /\ UNCHANGED fg
              ELSE Go("recheck") /\ fg' \in {fg, target}
  /\ UNCHANGED <<aimVars, spotVars, refused, pressVars, stolen, soundVars>>

RecheckFront ==
  /\ at = "recheck"
  /\ IF InFront THEN Go("place") ELSE End("focus-refused")
  /\ UNCHANGED <<aimVars, fg, spotVars, refused, pressVars, stolen, soundVars>>

Steal ==
  /\ at \notin {"idle", "over"}
  /\ fg' \in open \ {fg} /\ stolen' = TRUE
  /\ UNCHANGED <<at, aimVars, spotVars, refused, answer, pressVars, soundVars>>

-----------------------------------------------------------------------------
(* The click *)

\* content_click_point and letterboxed_point: (700, 750) of 1920 by 1080, in the
\* 16:9 content that is as wide or as high as the window, past the bar beside or
\* above it.  The content is c/9 wide and c/16 high; one truncation, at the end.
ClickPoint(w, h) ==
  LET c == IF w * 9 < h * 16 THEN w * 9 ELSE h * 16
  IN <<(700 * c + 960 * (9 * w - c)) \div 17280,
       (750 * c + 540 * (16 * h - c)) \div 17280>>

CannotPlace == IF Windows THEN "injection-rejected" ELSE "failed"

\* The pins, the walk and the snap, or the motion: each may be refused, which
\* ends the attempt at once on Linux and is remembered on Windows.
Place ==
  /\ at = "place"
  /\ \/ End(CannotPlace) /\ UNCHANGED <<spotVars, refused>>
     \/ /\ size' \in Sizes
        /\ point' = ClickPoint(size'[1], size'[2])
        /\ refused' \in (IF Windows THEN BOOLEAN ELSE {FALSE})
        /\ Go(IF Windows THEN "verify" ELSE "press")
  /\ UNCHANGED <<aimVars, fg, pressVars, stolen, soundVars>>

\* (fault) the foreground is not looked at again
VerifyFront_Blind ==
  /\ at = "verify" /\ Go("press") /\ stolen' = FALSE
  /\ UNCHANGED <<aimVars, fg, spotVars, refused, pressVars, soundVars>>

VerifyFront ==
  /\ at = "verify"
  /\ IF InFront THEN Go("press") /\ stolen' = FALSE
              ELSE End("injection-rejected") /\ UNCHANGED stolen
  /\ UNCHANGED <<aimVars, fg, spotVars, refused, pressVars, soundVars>>

\* Events go to the foreground window.
Press ==
  /\ at = "press"
  /\ \/ pressed' = TRUE /\ landed' = fg /\ Go("release") /\ UNCHANGED refused
     \/ UNCHANGED <<pressed, landed>> /\ refused' = TRUE
        /\ IF Windows THEN Go("release") ELSE End("failed")
  /\ UNCHANGED <<aimVars, fg, spotVars, stolen, lifted, soundVars>>

Release ==
  /\ at = "release"
  /\ \E ok \in BOOLEAN :
       /\ lifted' = ok /\ refused' = (refused \/ ~ok)
       /\ End(IF refused' THEN CannotPlace ELSE "clicked")
  /\ UNCHANGED <<aimVars, fg, spotVars, pressed, landed, stolen, soundVars>>

Answer ==
  /\ at = "over" /\ at' = "idle"
  /\ open' = {} /\ target' = NoWindow /\ unsure' = FALSE /\ fg' = NoWindow
  /\ size' = <<0, 0>> /\ point' = <<0, 0>> /\ refused' = FALSE /\ answer' = "none"
  /\ pressed' = FALSE /\ landed' = NoWindow /\ stolen' = FALSE /\ lifted' = FALSE
  /\ UNCHANGED soundVars

-----------------------------------------------------------------------------
(* The jingle *)

\* play_countdown_sound; a poke while the jingle plays is dropped
Poke == ~ringing /\ ringing' = TRUE /\ jingles' = jingles + 1 /\ UNCHANGED clickVars

\* The jingle is over, or there is no device: the thread ends either way.
JingleEnds ==
  /\ jingles > 0 /\ jingles' = jingles - 1 /\ ringing' = FALSE
  /\ UNCHANGED clickVars

CountdownStep ==
  \/ CallRiseAnchor \/ FindWindow \/ NoX11 \/ CheckOwner \/ Focus \/ CheckFront
  \/ RecheckFront \/ Steal \/ Place \/ VerifyFront \/ Press \/ Release \/ Answer
  \/ Poke \/ JingleEnds

-----------------------------------------------------------------------------
(* Properties *)

\* Within a pixel, in 17280ths of one.
Near(a, b) == a <= b + 17280 /\ b <= a + 17280

\* Seen from the middle of the window the click is 260 left of and 210 below it, as
\* in the reference of 1920 by 1080 scaled to the largest content that fits
\* (window_geometry.rs:13-17).
OnTheButton ==
  LET w == size[1]
      h == size[2]
      c == CHOOSE n \in {9 * w, 16 * h} : n <= 9 * w /\ n <= 16 * h
  IN /\ Near(17280 * point[1] + 260 * c, 8640 * w)
     /\ Near(17280 * point[2], 8640 * h + 210 * c)

\* What is pressed is the game's button, whatever the shape of the screen.  On Windows
\* the click goes to the target's process unless another took the foreground after
\* the last look at it; and on both systems the target is the game's unless it names
\* no owner (main.rs:548-554, window_interaction_linux.rs:35-42).  The outcome is
\* honest about it: "clicked" is said of a whole click, pressed, released and nothing
\* refused, and the early refusals of no click at all (main.rs:509-525).
ClickIsTheGames ==
  /\ pressed =>
       /\ OnTheButton
       /\ Windows => stolen \/ (landed # NoWindow /\ Proc[landed] = Proc[target])
       /\ Proc[target] = Game \/ (IF Windows THEN unsure ELSE target \notin Named)
  /\ answer = "clicked" => pressed /\ lifted /\ ~refused
  /\ answer \in {"game-not-found", "focus-refused"} => ~pressed
==============================================================================
