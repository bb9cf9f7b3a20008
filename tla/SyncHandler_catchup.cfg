SPECIFICATION Spec
CONSTANTS
  g = g  a1 = a1  a2 = a2  b2 = b2  b3 = b3  c1 = c1  c2 = c2
  p1 = p1  p2 = p2
  Peer = {p1, p2}
  Public = {p1}
  Shaky = {p1}
  NoPeer = NoPeer
  Genesis = g
  Block <- MCBlock
  Line <- MCLine
  Heads <- MCHeads
  Window = 1
  MaxHashes = 80
  MaxBlocks = 1
  MaxNews = 1
  Announced = {b3}
  Mined = {a2}
CHECK_DEADLOCK FALSE
INVARIANTS TypeOK ComparesWithinReply AsksWithoutGap HoldKeepsOneSync
PROPERTIES SyncEnds FreshPeerCatchesUp
