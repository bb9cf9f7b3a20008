SPECIFICATION Spec
CONSTANTS
  ann = ann
  ben = ben
  d1 = d1
  d2 = d2
  d3 = d3
  c1 = c1
  Addr = {ann, ben}
  Diamond = {d1, d2, d3}
  Channel = {c1}
  Inserter = inserter
  Tester = {tester}
  Bodies <- MCBodies
  Tested <- MCTested
  Depth = 4
  Breadth = 5
  Window = 3
  Alloc <- MCAlloc
  Reward = 100
  Mei = 10
  Part = 10
  Zhu <- MCZhu
  Storable <- MCStorable
  ZeroDigits = FALSE
  MintEvery = 1
  BurnAbove = 0
  AverageAbove = 0
  InscEvery = 1
  FreeInsc = 0
  MaxInsc = 2
  SelfUnchecked = 0
  Compound = 1
  Grown <- MCGrown
  BugTx = "i1"
  BugHeight = 2
INVARIANTS TypeOK HacConserved DiamondsAgree
