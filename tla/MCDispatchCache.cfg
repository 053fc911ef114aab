SPECIFICATION Spec
CONSTANTS
  d = d  c = c  l = l  l2 = l2  r = r  set = set
  NoPc = NoPc
  Sets = {set}
  SetOf <- MCSetOf
  DolPcs = {d, c}
  LPcs = {l, l2}
  RetailPcs = {r}
  ClaimPcs = {c}
  Thunked = {}
  Originals = {d, c}
  AliasOf <- MCAliasOf
  E4Pcs = {l2}
CONSTRAINT OneGame
INVARIANTS
  TypeOK
  PcInOneWay
  VerdictAgrees
  PeekIffHit
  
CHECK_DEADLOCK FALSE
