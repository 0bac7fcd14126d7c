SPECIFICATION Spec
CONSTANTS
  Requests = {r1, r2}
  None = None
  NIds = 2
  NChunks = 2
  MaxGen = 3
  MaxLinks = 2
  MaxAir = 2
SYMMETRY Symmetric
INVARIANTS FrameOnWire OwnLinkOnly OwnAnswer
