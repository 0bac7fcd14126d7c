SPECIFICATION Spec
CONSTANTS
  d1 = d1
  d2 = d2
  c1 = c1
  c2 = c2
  Devices = {d1, d2}
  Clients = {c1}
  Requests <- MCRequests
  MaxT = 2
  MaxEvents = 4
  None = None
INVARIANTS Restorable PreviewHonoured MembersLeftAlone VerdictTrue
