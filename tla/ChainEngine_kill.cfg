CONSTANTS
  Block <- MCBlock
  Genesis <- MCGenesis
  Prev <- MCPrev
  Height <- MCHeight
  Anc <- MCAnc
  Key = {"k1", "k2"}
  Writes <- MCWrites
  Spends <- MCSpends
  Bad <- MCBad
  Batch <- MCBatch
  Caller = {c1}
  Boot = Boot
  NoBlock = NoBlock
  Absent = Absent
  UnstableBlock = 1
  Top = 3
  ChanCap = 1
  KillAnywhere = TRUE
SPECIFICATION Spec
INVARIANT NoPanic
