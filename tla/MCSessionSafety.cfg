SPECIFICATION Spec
CONSTANTS
  Attempts = {a1, a2}
  Closers = {c1}
  KLoops = {k1, k2}
  PLoops = {p1}
  Links = {l1, l2, l3}
  None = None
SYMMETRY Symmetric
INVARIANT NoOrphanLink
PROPERTY ImplementsLink
