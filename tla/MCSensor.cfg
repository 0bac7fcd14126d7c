SPECIFICATION Spec
CONSTANTS
  None = None
  Drafts <- MCDrafts
  Settings <- MCSettings
  InitTags <- MCInitTags
  Learned <- MCLearned
  CalibTicks = 2
  ChunkSize = 20
  MaxOps = 2
  MaxTicks = 2
  MaxFaults = 1
  MaxPolls = 1
INVARIANTS CleanLinkDelivers StoredWasSent VerifiedIsAfter
CHECK_DEADLOCK FALSE
