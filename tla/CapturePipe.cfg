CONSTANTS
  gui = gui
  probe = probe
  svc = svc
  console = console
  Client = {gui, probe}
  Server = {svc, console}
  Service = svc
  Nil = Nil
  Asks <- MCAsks
  Version = 1
  MaxPorts = 2
  MaxWindow = 2
  Late = 1
  IoDeadline = 3
  Cooldown = 1
  Backoff = 2
  Slack = 2
  Budget <- MCBudget
  Margin = 1
SPECIFICATION FairSpec
INVARIANTS TypeOK OwnAnswer StopsWithinHint
PROPERTIES AnswerIsKept GapIsRiddenOut NobodyIsHeld
