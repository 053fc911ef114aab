SPECIFICATION Spec
CONSTANTS
  d = d  c = c  l = l  l2 = l2  r = r  set = set
  NoPc = NoPc
  Sets = {set}
  SetOf <- MCSetOf
  DolPcs = {d}
  LPcs = {l, l2}
  RetailPcs = {r}
  ClaimPcs = {}
  Thunked = {}
  Originals = {d}
  AliasOf <- MCAliasOf
  E4Pcs = {l2}
INVARIANT GateNeverMemoised
CHECK_DEADLOCK FALSE
