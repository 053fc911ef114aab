SPECIFICATION Spec
CONSTANTS
  d = d  c = c  l = l  l2 = l2  r = r  set = set
  NoPc = NoPc
  Sets = {set}
  SetOf <- MCSetOf
  DolPcs = {d, c}
  LPcs = {l}
  RetailPcs = {r}
  ClaimPcs = {c}
  Thunked = {c}
  Originals = {d, c}
  AliasOf <- MCAliasOf
  E4Pcs = {}
INVARIANT ClaimVerdictKept
CHECK_DEADLOCK FALSE
