SPECIFICATION Spec
CONSTANTS
  Jobs = {j1}
  None = None
  MaxCancels = 1
INVARIANT AnyCancelStops
