CONSTANTS
  c1 = c1
  c2 = c2
  c3 = c3
  zel = zel
  bob = bob
  Conn <- Crew3
  Account <- Account3
  Guest <- NoGuest
  User = {zel, bob}
  Sid = {s1, s2, s3}
  Server = {}
  Nil = Nil
  Frames = {"keepAlive", "promote", "demote"}
  LockTimeouts = TRUE
SPECIFICATION Spec
CHECK_DEADLOCK FALSE
SYMMETRY Interchangeable
INVARIANTS
  TypeOK
  OneSeatPerSocket
PROPERTIES
  JoinNeverLosesSeat
