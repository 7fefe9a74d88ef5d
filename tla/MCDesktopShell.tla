--------------------------- MODULE MCDesktopShell ---------------------------
(* Small instances of DesktopShell. *)
EXTENDS DesktopShell, TLC

CONSTANTS live, d1

\* Two windows of the game, one of them without a name for its owner; a browser
\* on a page of that title; a player of the same title that names no owner.
MCProc == [w \in {"game", "splash", "browser", "video"} |->
             IF w \in {"game", "splash"} THEN "sot" ELSE w]
MCSizes == {<<1920, 1080>>, <<960, 540>>, <<2560, 1080>>, <<1920, 1440>>, <<1366, 768>>}
==============================================================================
