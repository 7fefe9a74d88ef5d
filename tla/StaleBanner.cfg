CONSTANTS
  live = live
  d1 = d1
  Live = live
  Diag = {d1}
  Escalate = 3
  Combo = {"ctrl-o", "ctrl-p", "alt-o"}
  Default = "ctrl-o"
  Screen = {"left", "right"}
  Home = "left"
  NoFile = "none"
  Corrupt = "corrupt"
  Window = {"game", "splash", "browser", "video"}
  Proc <- MCProc
  Game = "sot"
  Titled = {"game", "browser", "video"}
  Named = {"game", "browser"}
  Sizes <- MCSizes
  Nil = Nil
  NoWindow = NoWindow
  Activity = {"lobby", "countdown"}
  Blank = "blank"
  Unsent = "unsent"
  Due = 3
  MaxQueue = 2
  Current = 0
  PerFile = 2
  KeepSome = 2
  Budgets = {1, 3, 9}
  MaxLine = 9
SPECIFICATION Spec
INVARIANTS ClosedHasNoBanner
