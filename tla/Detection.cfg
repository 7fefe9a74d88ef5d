CONSTANTS
  g1 = g1
  g2 = g2
  co = co
  h1 = h1
  h2 = h2
  s1 = s1
  s2 = s2
  host1 = host1
  host2 = host2
  ses1 = ses1
  ses2 = ses2
  Nil = Nil
  LocalPort = {g1, g2, co}
  Remote = {h1, h2, s1, s2}
  Flow = {host1, host2, ses1, ses2}
  Port <- Ports
  Endpoint <- Endpoints
  Window <- Windows
  Floor = 4
  SessionFloor = 1
  Gap = {1}
  Grace = 1
  Probation = 2
  Ttl = 3
  MaxPackets <- Bounds
SPECIFICATION Spec
CHECK_DEADLOCK FALSE
SYMMETRY Interchangeable
INVARIANTS
  TypeOK
  IdentityIsNotTheHost
  TeardownNeverCounts
  NoEchoRelock
  ShownGameIsAlive
PROPERTIES
  IdentityIsHeld
