SPECIFICATION Spec
CONSTANTS
  None = None
  Drafts <- MCDrafts
  Settings <- MCSettings
  InitTags <- MCInitTags
  Learned <- MCLearned
  CalibTicks = 2
  ChunkSize = 20
  MaxOps = 2
  MaxTicks = 0
  MaxFaults = 1
  MaxPolls = 0
INVARIANT NothingSwallowed
CHECK_DEADLOCK FALSE
