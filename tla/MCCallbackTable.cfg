SPECIFICATION Spec
CONSTANTS
  t1 = t1
  t2 = t2
  k1 = k1
  k2 = k2
  f1 = f1
  Threads = {t1, t2}
  Keys = {k1, k2}
  Callables = {f1}
  MaxDepth = 2
INVARIANTS
  NoSelfDeadlock
  RunsWereDefined
PROPERTIES
  NobodyIsSkipped
SYMMETRY Symmetry
