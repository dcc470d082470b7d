SPECIFICATION FairSpec
CONSTANTS
  o1 = o1
  o2 = o2
  b1 = b1
  b2 = b2
  NoBatch = NoBatch
  Orders <- TwoOrders
  Batches <- OneBatch
  Amount <- Prices
  MaxAmount = 2
  MaxBalance = 1
  PaymentLock = 1
  ReviewLock = 2
  MaxDelay = 1
  LastSubmission = 0
  MaxTime = 4
PROPERTIES NothingLeftOpen ImplementsPromise
