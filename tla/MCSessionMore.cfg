SPECIFICATION FairSpec
CONSTANTS
  Attempts = {a1, a2}
  Closers = {c1}
  KLoops = {k1}
  PLoops = {p1}
  Links = {l1}
  None = None
INVARIANT OneOwner
PROPERTY AttemptsEnd
