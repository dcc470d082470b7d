SPECIFICATION Spec
CONSTANTS
  p1 = p1
  p2 = p2
  r1 = r1
  w1 = w1
  w2 = w2
  Packages <- Two
  Replacements <- Again
  Workers = {w1, w2}
  NoWorker = NoWorker
  Order = Order
  Stock = 2
  MaxRetries = 1
  HandsOff = TRUE
  Fates <- AnyFate
SYMMETRY Symmetry
CONSTRAINT Scenes
INVARIANTS DeductedOnce  
PROPERTY OnlyWatchersBindCancelled
CHECK_DEADLOCK FALSE
