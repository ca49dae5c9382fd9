SPECIFICATION Spec
CONSTANTS
  Threads = {t1, t2}
  Tables = {k1, k2, k3, k4}
  Addresses = {1, 2, 3, 4, 5, 6}
  Capacities = {0, 1, 2, 3}
  MaxMmaps = 1
  MaxFds = 1
SYMMETRY Symmetry
INVARIANTS
  EntriesExact
  HandlesStayValid
  CacheBounded
  LimitsExact
