SPECIFICATION FairSpec
CONSTANTS
  a1 = a1  a2 = a2  b1 = b1  c1 = c1  d1 = d1
  Conn = {a1, a2, b1, c1, d1}
  KeyOf <- MCKeyOf
  AddrOf <- MCAddrOf
  Distance <- MCDistance
  Public = {a1, a2, b1, d1}
  ToMe = {a1, a2, c1, d1}
  BackbonePeers = 2
  OffshootPeers = 1
  Item = {"i"}
  Talks = {a1}
  Ends = {a1, a2}
CHECK_DEADLOCK FALSE
INVARIANTS TypeOK NoOrphanEntry NearestFirst BackbonesDiffer TellsOnce
PROPERTIES DeadLeave
