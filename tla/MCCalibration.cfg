SPECIFICATION FairSpec
CONSTANTS
  Jobs = {j1, j2}
  None = None
  MaxCancels = 1
INVARIANTS OwnResult CancelStops
PROPERTIES ImplementsJob JobsEnd
