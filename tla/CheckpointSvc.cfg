\* Every choice of key sources, two overlapping requests, a scrape, restarts.
SPECIFICATION Spec
CONSTANTS
  k1 = k1
  k2 = k2
  k3 = k3
  Keys = {k1, k2, k3}
  Settings <- MCSettings
  Missing = Missing
  Bad = Bad
  Nil = Nil
  Clients = {c1, c2}
  MaxRequests = 2
  MaxTime = 3
SYMMETRY MCSymmetry
INVARIANTS
  NoFallback
  GaugeLatest
  ScrapeCovers
