SPECIFICATION Spec
CONSTANTS
  Attempts = {a1}
  Closers = {c1}
  KLoops = {k1, k2}
  PLoops = {p1}
  Links = {l1, l2}
  None = None
SYMMETRY Symmetric
INVARIANT OneKeepAlive
