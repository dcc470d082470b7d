SPECIFICATION Spec
CONSTANTS
  b1 = b1
  b2 = b2
  r1 = r1
  r2 = r2
  r3 = r3
  A = A
  B = B
  Batches = {b1, b2}
  Rows = {r1, r2, r3}
  RowNo <- Number
  FileOf <- File
  Key <- SubOrder
  Pack <- Order
  Lookup <- Forms
  Quantity <- Pieces
  Skus = {A, B}
  Codes = {"long", "short"}
  Catalog <- Known0
  Sessions = {g1, g2}
  NoSku = NoSku
  Own = Own
  NoTab = NoTab
  NoOne = NoOne
  Quantities = {1, 2}
  MaxItems = 1
  MaxRevision = 2
  MaxRuns = 1
  MaxStock = 2
  d1 = d1
  d2 = d2
  s1 = s1
  s2 = s2
  f1 = f1
  f2 = f2
  Drafts = {d1, d2}
  Stores = {s1, s2}
  Files = {f1, f2}
  Numbers <- Content
  Hash <- Digest
  Keys = {k1, k2}
  None = None
  MaxOrders = 2
INVARIANTS PreviewsAddUp OneOrderPerNumber SuggestionsFit NumbersLiveOnce OrdersAnswerable
PROPERTIES NoLostEdit OnlySubmittableOrdered
CONSTRAINT Drafted
SYMMETRY Symmetry
CHECK_DEADLOCK FALSE
