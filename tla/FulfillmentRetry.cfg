SPECIFICATION Spec
CONSTANTS
  p1 = p1
  p2 = p2
  r1 = r1
  w1 = w1
  w2 = w2
  Packages <- Two
  Replacements <- NoOne
  Workers = {w1}
  NoWorker = NoWorker
  Order = Order
  Stock = 2
  MaxRetries = 1
  HandsOff = FALSE
  Fates <- PlainFate
INVARIANT DeductedOnce
CHECK_DEADLOCK FALSE
