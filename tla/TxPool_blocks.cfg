SPECIFICATION Spec
CONSTANTS
  a1 = a1  a2 = a2  b1 = b1  c1 = c1  m1 = m1
  ha = ha  hb = hb  hc = hc  hm = hm
  d1 = d1
  l1 = l1  l2 = l2  l3 = l3  l4 = l4  l5 = l5  l6 = l6
  NoTx = NoTx  NoThread = NoThread
  BlockThread = {d1}
  Tx <- MixTx
  Hash <- MCHash
  HashOf <- MixHashOf
  Purity <- MixPurity
  MintNo <- MCMintNo
  Clash <- MCClash
  MaxSize <- MCMaxSize
  ShortRange = 10
  MintSpan = 1
  NormalSpan = 1
  Cycle = 1
  MaxNo = 16777215
  MaxInBlock = 1
INVARIANTS TypeOK OneOfEach WithinSize BestFirst
PROPERTIES StaleLeaves DropsLowest LeavesForBetter
