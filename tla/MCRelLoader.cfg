SPECIFICATION Spec
CONSTANTS
  a = a  b = b  c = c
  Mods = {a, b, c}
  Touched = {a}
  Nil = Nil
  MaxNest = 2
SYMMETRY Interchangeable
INVARIANTS
  TypeOK
  TableIsQueue
  OverwritesPending
CHECK_DEADLOCK FALSE
