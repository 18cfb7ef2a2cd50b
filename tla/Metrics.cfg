\* Two goroutines, three requests of three durations, scrapes included.
SPECIFICATION Spec
CONSTANTS
  Goroutines = {g1, g2}
  Bounds <- MCBounds
  Durations = {1, 2, 4}
  MaxRequests = 3
  Nil = Nil
SYMMETRY MCSymmetry
INVARIANTS QuietExact InfCovers
CHECK_DEADLOCK FALSE
