SPECIFICATION FrontSpec
CONSTANTS
  Pages = {p1}
  Devices = {d1, d2}
  Sensors = {1}
  MaxQueue = 2
  MaxSteps = 4
  MaxCuts = 1
  Watching = {c1, c2}
  MaxSessions = 2
  MaxFrames = 2
  MaxRequests = 6
  Viewers = {v1, v2, v3}
  MaxWrites = 4
  MaxClients = 2
  MaxNotified = 1
  MaxDrops = 1
INVARIANT LateResultIsHarmless
CHECK_DEADLOCK FALSE
