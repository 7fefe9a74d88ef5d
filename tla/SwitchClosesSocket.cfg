CONSTANTS
  c1 = c1
  c2 = c2
  c3 = c3
  zel = zel
  bob = bob
  Conn <- Crew3
  Account <- Account3
  Guest <- NoGuest
  User = {zel, bob}
  Sid = {s1, s2}
  Server = {}
  Nil = Nil
  Frames = {}
  LockTimeouts = FALSE
SPECIFICATION Spec
CHECK_DEADLOCK FALSE
PROPERTIES
  JoinKeepsItsSocket
