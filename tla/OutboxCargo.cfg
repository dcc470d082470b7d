SPECIFICATION Spec
CONSTANTS
  e1 = e1
  e2 = e2
  j1 = j1
  j2 = j2
  Events <- TwoRows
  Channel <- TwoCargo
  Jobs <- TwoJobs
  CargoLimit = 2
  MaxAttempts = 3
  Lease = 2
  BaseDelay <- Delays
  MaxDelay = 3
SYMMETRY RowSymmetry
INVARIANTS LogMatchesRow AloneWithinLease
