SPECIFICATION Spec
CONSTANTS
  Procs = {p1, p2}
  Resources = {here}
  MaxClock = 5
  MaxTokens = 2
  Life = 2
  Digests = {d1}
  MaxFiles = 1
  Runs = {x1, x2}
  MaxVersion = 2
  MaxAttempts = 2
  Skus = {x1, x2}
  Products = {q1, q2}
  Sequences = {1, 2}
  None = None
  Free = Free
  Accounts = {u}
  Customers = {c}
  Addresses = {x1, x2}
  Missing = Missing
  Pids = {7}
  MaxAge = 3
  SkuCodes <- SheetCodes
  MaxRows = 3
  MaxFlaws = 1
  Items = {1, 2}
  MaxStock = 1
  MaxChanges = 1
  Nothing = Nothing
  Nobody = Nobody
INVARIANTS  RefreshTokensSentOnce   TargetShowsStock   HealthyMeansWorking
PROPERTIES OnlyOwnFailure NoOlderSheet OnlyDecisionsBan
CONSTRAINT Quiet
SYMMETRY Symmetry
CHECK_DEADLOCK FALSE
