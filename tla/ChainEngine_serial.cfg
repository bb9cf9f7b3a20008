CONSTANTS
  Block <- MCBlock
  Genesis <- MCGenesis
  Prev <- MCPrev
  Height <- MCHeight
  Anc <- MCAnc
  Key = {"k1", "k2"}
  Writes <- MCWrites
  Spends <- MCSpends
  Bad <- MCBad
  Batch <- MCBatch
  Caller = {c1}
  Boot = Boot
  NoBlock = NoBlock
  Absent = Absent
  UnstableBlock = 2
  Top = 4
  ChanCap = 1
  KillAnywhere = FALSE
SPECIFICATION FairSpec
INVARIANTS
  TypeOK
  HeadInWindow
  TreeViews
  NoRepeat
  HeadIsHighest
  StoreRebuildsHead
  NoPanic
PROPERTIES
  CallsReturn
  ImplementsForkChoice
