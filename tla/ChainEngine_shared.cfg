CONSTANTS
  Block <- MCBlock
  Genesis <- MCGenesis
  Prev <- MCPrev
  Height <- MCHeight
  Anc <- MCAnc
  Key = {"k1", "k2"}
  Writes <- MCWrites
  Spends <- MCSpends
  Bad <- MCBad
  Batch <- RaceBatch
  Caller = {c1, c2}
  Boot = Boot
  NoBlock = NoBlock
  Absent = Absent
  UnstableBlock = 1
  Top = 3
  ChanCap = 1
  KillAnywhere = FALSE
SYMMETRY Callers
SPECIFICATION Spec
INVARIANTS
  StoresItsOwnHead
PROPERTIES
  HeadClimbs
