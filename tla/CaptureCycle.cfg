CONSTANTS
  Pid = {1, 2, 3, 4}
  Port = {7, 8}
  Nil = Nil
  Kinds <- MCKinds
  Parents <- MCParents
  Owners <- MCOwners
  MaxChurn = 1
  MaxCycles = 1
  Iface = {"eth", "vpn"}
  Packet <- MCPacket
  Nobody = Nobody
  NoCount = NoCount
  WindowTicks = 1
  MaxReads = 2
SPECIFICATION FairSpec
INVARIANTS TypeOK WineserverIsTheClosest NothingIsLost GameTrafficIsRanked
PROPERTIES WindowEnds
