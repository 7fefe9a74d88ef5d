CONSTANTS
  c1 = c1
  c2 = c2
  c3 = c3
  zel = zel
  bob = bob
  Conn <- Crew3
  Account <- Account3
  Guest <- Phone
  User = {zel, bob}
  Sid = {s1, s2}
  Server = {}
  Nil = Nil
  Frames = {"keepAlive"}
  LockTimeouts = FALSE
SPECIFICATION FairSpec
CHECK_DEADLOCK FALSE
INVARIANTS
  NoOrphanFleet
PROPERTIES
  NoGhostLeftBehind
  ImplementsRoster
