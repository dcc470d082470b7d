SPECIFICATION Spec
CONSTANTS
  o1 = o1
  o2 = o2
  b1 = b1
  b2 = b2
  NoBatch = NoBatch
  Orders <- TwoOrders
  Batches <- TwoBatches
  Amount <- SamePrices
  MaxAmount = 2
  MaxBalance = 4
  PaymentLock = 1
  ReviewLock = 2
  MaxDelay = 1
  LastSubmission = 1
  MaxTime = 3
SYMMETRY Symmetry
INVARIANTS FundedOnce OneWayToPay BooksBalance
PROPERTIES PaidBeforeLockExpires SiblingsSpared
