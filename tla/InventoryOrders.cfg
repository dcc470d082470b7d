SPECIFICATION Spec
CONSTANTS
  t1 = t1
  t2 = t2
  r1 = r1
  r2 = r2
  NoTxn = NoTxn
  Skus = {1, 2}
  Refs <- TwoRefs
  Txns <- TwoSessions
  Kinds <- EveryKind
  MaxUnits = 1
  MaxTotal = 1
  MaxLate = 1
SYMMETRY SafetySymmetry
INVARIANTS NoOversell OnlyReplacementsDeadlock
PROPERTIES NoLostUpdate ImplementsLedger ReservesAllOrNothing
