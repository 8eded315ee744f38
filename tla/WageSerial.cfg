SPECIFICATION Spec
CONSTANTS
  w1 = w1 w2 = w2 p1 = p1 p2 = p2 a1 = a1 a2 = a2 r1 = r1 r2 = r2
  Workers = {w1, w2}
  Salaried = {}
  Days = {1, 2}
  Windows <- Windows1
  Periods = {p1, p2}
  Advances = {a1}
  Requests = {r1}
  NoPeriod = NoPeriod
  GivenPeriods = {NoPeriod, p1, p2}
  MaxLoose = 0
  MaxRepeat = 1
SYMMETRY Interchangeable
CHECK_DEADLOCK FALSE
INVARIANTS PaidWithinNet PaidMeansSettled StampsBelongToFrozenSheets
PROPERTIES FrozenSheetIsFinal MoneyPinsTheSheet
