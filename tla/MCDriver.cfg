SPECIFICATION FairSpec
CONSTANTS
  Requests = {r1, r2}
  None = None
  NIds = 2
  NChunks = 2
  MaxGen = 3
  MaxLinks = 2
  MaxAir = 1
INVARIANTS FrameOnWire OwnLinkOnly OwnAnswer
PROPERTY RequestsEnd
