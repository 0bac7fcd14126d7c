SPECIFICATION Spec
CONSTANTS
  Viewers = {v1}
  MaxWrites = 2
SYMMETRY Symmetric
INVARIANT StreamFollows
