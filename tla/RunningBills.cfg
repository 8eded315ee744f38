SPECIFICATION Spec
CONSTANTS
  slab = slab
  extra = extra
  Original = {slab}
  Variations = {extra}
  Terms <- TwoTerms
  Claims = {500, 2000}
  BackCharges = {0, 4}
  Payments = {2}
  MaxBills = 2
INVARIANT TypeOK
INVARIANT NoDrift
INVARIANT CommittedThenActual
PROPERTY FiguresFreeze
PROPERTY KeepsAnAccount
CHECK_DEADLOCK FALSE
