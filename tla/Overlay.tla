------------------------------- MODULE Overlay -------------------------------
(***************************************************************************)
(* The in-game overlay window (main.rs, overlay_x11.rs): the global hotkey *)
(* that toggles it, the settings' checkbox that also does, the window      *)
(* manager that hides it when BetterFleet loses the focus, and the layout  *)
(* file that brings it back where it was at the next start.                *)
(*                                                                         *)
(* A position is the screen its corner is on.  X11 answers.                *)
(*                                                                         *)
(* Operators named X_Y and commented (fault) are not part of the model.    *)
(***************************************************************************)
EXTENDS Platform, FiniteSets

CONSTANTS
  Combo,      \* accelerators
  Default,    \* DEFAULT_OVERLAY_HOTKEY
  Screen,
  Home,       \* the screen of tauri.conf.json's default position
  NoFile, Corrupt

ASSUME OverlayAssumption ==
  /\ Default \in Combo /\ Home \in Screen
  /\ NoFile \notin Screen /\ Corrupt \notin Screen /\ NoFile # Corrupt

VARIABLES
  up,        \* the app runs
  taken,     \* the combos other applications hold
  bound,     \* the combos the app holds
  hotkey,    \* OVERLAY_HOTKEY
  there,     \* the overlay window exists
  visible,   \* overlay.is_visible()
  raised,    \* the window manager keeps it above
  intent,    \* OVERLAY_VISIBLE_INTENT
  focus,     \* "main", "overlay" or "other": the window that has the focus
  blurred,   \* the main window's Focused(false) is still to be handled
  place,     \* the screen the overlay is on
  file,      \* overlay-layout.json
  screens,   \* the screens connected
  wish,      \* the player last asked to see it (history)
  slipped,   \* it lost the focus itself since it was last raised (history)
  unheld     \* nothing bound since the start-up registration failed (history)

hotkeyVars  == <<taken, bound, hotkey, unheld>>
windowVars  == <<there, visible, raised, intent, focus, blurred, wish, slipped>>
layoutVars  == <<place, file, screens>>
overlayVars == <<up, hotkeyVars, windowVars, layoutVars>>

OverlayTypeOK ==
  /\ {up, there, visible, raised, intent, blurred, wish, slipped, unheld} \subseteq BOOLEAN
  /\ focus \in {"main", "overlay", "other"}
  /\ taken \subseteq Combo /\ bound \subseteq Combo \ taken /\ hotkey \in Combo
  /\ place \in Screen /\ screens \subseteq Screen
  /\ file \in Screen \cup {NoFile, Corrupt}

OverlayInit ==
  /\ up = FALSE /\ taken = {} /\ bound = {} /\ hotkey = Default /\ unheld = FALSE
  /\ there = FALSE /\ visible = FALSE /\ raised = FALSE /\ intent = FALSE
  /\ focus = "other" /\ blurred = FALSE /\ wish = FALSE /\ slipped = FALSE
  /\ place = Home /\ file = NoFile /\ screens = Screen

-----------------------------------------------------------------------------
(* The session of the app *)

\* (fault) the saved position is taken as it is
Restored_Blind == IF file \in Screen THEN file ELSE Home

\* restore_overlay_layout: the saved position, unless its screen is gone
Restored == IF file \in Screen /\ file \in screens THEN file ELSE Home

\* (fault) the start-up registration is taken for granted
StartApp_Assumes ==
  /\ ~up /\ up' = TRUE
  /\ bound' = {Default} /\ hotkey' = Default /\ unheld' = FALSE
  /\ there' = TRUE /\ visible' = FALSE /\ raised' = FALSE /\ intent' = FALSE
  /\ focus' = "main" /\ blurred' = FALSE /\ wish' = FALSE /\ slipped' = FALSE
  /\ place' \in {Restored, Home}
  /\ UNCHANGED <<taken, file, screens>>

\* The start-up registration may fail: the app logs it and goes on.
StartApp ==
  /\ ~up /\ up' = TRUE
  /\ bound' = {Default} \ taken /\ hotkey' = Default
  /\ unheld' = (Default \in taken)
  /\ there' = TRUE /\ visible' = FALSE /\ raised' = FALSE /\ intent' = FALSE
  /\ focus' = "main" /\ blurred' = FALSE /\ wish' = FALSE /\ slipped' = FALSE
  /\ place' \in {Restored, Home}   \* Home when the monitors cannot be listed
  /\ UNCHANGED <<taken, file, screens>>

Gone ==
  /\ up' = FALSE /\ bound' = {}
  /\ there' = FALSE /\ visible' = FALSE /\ raised' = FALSE
  /\ focus' = "other" /\ blurred' = FALSE
  /\ UNCHANGED <<taken, hotkey, unheld, intent, wish, slipped, place, screens>>

\* CloseRequested of the main window: save_overlay_layout, then the overlay goes.
\* The geometry may be unreadable, the write fail or be cut short.
CloseMain ==
  /\ up /\ Gone
  /\ IF there THEN file' \in {place, file, Corrupt} ELSE UNCHANGED file

Crash == up /\ Gone /\ UNCHANGED file

\* What a window that goes leaves the focus to
FocusPasses == focus' \in IF focus = "overlay" THEN {"main", "other"} ELSE {focus}

\* The overlay can be closed by itself: nothing brings it back.
CloseOverlay ==
  /\ up /\ there /\ there' = FALSE /\ visible' = FALSE /\ raised' = FALSE
  /\ wish' = FALSE /\ FocusPasses
  /\ UNCHANGED <<up, hotkeyVars, intent, blurred, slipped, layoutVars>>

-----------------------------------------------------------------------------
(* The hotkey *)

\* set_always_on_top, and reinforce_overlay_stacking on Linux
Raise == raised' = TRUE

Shown ==
  /\ visible' = TRUE /\ intent' = TRUE /\ Raise
  /\ wish' = TRUE /\ slipped' = FALSE /\ UNCHANGED focus
Hidden ==
  /\ visible' = FALSE /\ intent' = FALSE
  /\ wish' = FALSE /\ FocusPasses /\ UNCHANGED <<raised, slipped>>

\* register_overlay_toggle's handler
PressHotkey ==
  /\ up /\ bound # {} /\ there
  /\ IF visible THEN Hidden ELSE Shown
  /\ UNCHANGED <<up, hotkeyVars, there, blurred, layoutVars>>

\* (fault) the old combo is released first
Rebind_ReleaseFirst(c) ==
  /\ up /\ c # hotkey
  /\ bound' = (bound \ {hotkey}) \cup ({c} \ taken)
  /\ hotkey' = IF c \in taken THEN hotkey ELSE c
  /\ unheld' = (unheld /\ c \in taken)
  /\ UNCHANGED <<up, taken, windowVars, layoutVars>>

\* set_overlay_hotkey: the new combo first, which fails when anyone has it, the
\* app included; then the old one is released, or stays bound as well.
Rebind(c) ==
  /\ up /\ c # hotkey /\ c \notin taken \cup bound
  /\ bound' \in {(bound \cup {c}) \ {hotkey}, bound \cup {c}}
  /\ hotkey' = c /\ unheld' = FALSE
  /\ UNCHANGED <<up, taken, windowVars, layoutVars>>

\* Another application takes a combo, or gives it back.
OthersTake ==
  /\ \E c \in Combo \ bound :
       taken' = IF c \in taken THEN taken \ {c} ELSE taken \cup {c}
  /\ UNCHANGED <<up, bound, hotkey, unheld, windowVars, layoutVars>>

-----------------------------------------------------------------------------
(* The window *)

\* setOverlayVisible, the checkbox of the settings (Overlay.ts)
Tick ==
  /\ up /\ there /\ focus = "main"
  /\ \E v \in BOOLEAN : /\ visible' = v /\ wish' = v
                       /\ raised' = (raised \/ v) /\ slipped' = (slipped /\ ~v)
  /\ UNCHANGED <<up, hotkeyVars, there, intent, focus, blurred, layoutVars>>

\* The player clicks into the game; on Linux the window manager drops the
\* overlay, or hides it.  Only the main window's loss of the focus is handled.
LoseFocus ==
  /\ up /\ focus # "other" /\ focus' = "other"
  /\ blurred' = (blurred \/ focus = "main") /\ slipped' = (slipped \/ focus = "overlay")
  /\ IF Linux THEN raised' = FALSE /\ visible' \in {visible, FALSE}
              ELSE UNCHANGED <<raised, visible>>
  /\ UNCHANGED <<up, hotkeyVars, there, intent, wish, layoutVars>>

\* The player clicks one of the app's windows: the overlay too takes the focus.
GainFocus ==
  /\ up /\ \E w \in {"main", "overlay"} \ {focus} : (w = "overlay" => visible) /\ focus' = w
  /\ blurred' = (blurred \/ focus = "main")
  /\ UNCHANGED <<up, hotkeyVars, there, visible, raised, intent, wish, slipped, layoutVars>>

\* (fault) only what is visible is reinforced
HandleBlur_Visible ==
  /\ up /\ blurred /\ blurred' = FALSE
  /\ raised' = (raised \/ visible) /\ slipped' = (slipped /\ ~visible)
  /\ UNCHANGED <<up, hotkeyVars, there, visible, intent, focus, wish, layoutVars>>

\* The handler of Focused(false)
HandleBlur ==
  /\ up /\ blurred /\ blurred' = FALSE
  /\ IF Linux /\ there /\ (visible \/ intent)
       THEN visible' = TRUE /\ Raise /\ slipped' = FALSE
       ELSE UNCHANGED <<visible, raised, slipped>>
  /\ UNCHANGED <<up, hotkeyVars, there, intent, focus, wish, layoutVars>>

\* A screen is plugged in or out while the app is not running.
MoveScreens ==
  /\ ~up
  /\ \E s \in Screen \ {Home} :
       screens' = IF s \in screens THEN screens \ {s} ELSE screens \cup {s}
  /\ UNCHANGED <<up, hotkeyVars, windowVars, place, file>>

DragOverlay ==
  /\ up /\ visible /\ place' \in screens
  /\ UNCHANGED <<up, hotkeyVars, windowVars, file, screens>>

OverlayStep ==
  \/ StartApp \/ CloseMain \/ Crash \/ CloseOverlay
  \/ PressHotkey \/ OthersTake \/ \E c \in Combo : Rebind(c)
  \/ Tick \/ LoseFocus \/ GainFocus \/ HandleBlur
  \/ MoveScreens \/ DragOverlay

-----------------------------------------------------------------------------
(* Properties *)

\* The accelerator the app names is one it holds, so a rebind that fails leaves the
\* player the toggle there was (main.rs:997-999), unless the start-up registration
\* failed and nothing was bound since (main.rs:86-88).
HotkeyIsBound == up => hotkey \in bound \/ unheld

\* On Linux an overlay shown by the hotkey is visible and above the game once the
\* main window's loss of the focus is handled, even if the window manager hid it, and
\* until the overlay has the focus itself and loses it (main.rs:391-394).
OverlayFloats ==
  Linux /\ up /\ there /\ intent /\ focus # "main" /\ ~blurred /\ ~slipped =>
    visible /\ raised

\* Whatever was saved and unplugged since, the overlay is on a connected screen
\* (main.rs:152-153).
OverlayIsReachable == up => place \in screens

\* The loss of focus never shows an overlay the player hid (main.rs:394-395).
ResurrectsNothing == [][HandleBlur /\ ~visible /\ visible' => wish]_overlayVars
==============================================================================
