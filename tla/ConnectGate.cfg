CONSTANTS
  c1 = c1
  c2 = c2
  c3 = c3
  Conn <- Clients
  Timeout = 2
  Validity = 2
  MaxWait = 7
SPECIFICATION Spec
CHECK_DEADLOCK FALSE
SYMMETRY Interchangeable
INVARIANTS
  TypeOK
  SilentIsClosed
PROPERTIES
  FreshTokenAccepted
  NotTimedOutEarly
