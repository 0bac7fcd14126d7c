SPECIFICATION MCSpec
CONSTANTS
  None = None
  Torn = Torn
  Sites = {s1, s2}
  Devices = {d1, d2}
  Addrs = {a1, a2}
  Hosts = {h1, h2}
  MaxOps = 3
  MaxFaults = 1
  MaxTime = 2
  Guis = {g1, g2}
  Ports = {1, 2}
  Addresses = {n1}
  MaxStarts = 3
  MaxMixed = 2
SYMMETRY Symmetric
INVARIANTS RegistryLoads HistoryKept IndexIsRead LinksUnderLock OneToken ClientsKeepTrust
CHECK_DEADLOCK FALSE
