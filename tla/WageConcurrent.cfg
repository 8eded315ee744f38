SPECIFICATION Spec
CONSTANTS
  w1 = w1 w2 = w2 p1 = p1 p2 = p2 a1 = a1 a2 = a2 r1 = r1 r2 = r2
  Workers = {w1}
  Salaried = {w1}
  Days = {1}
  Windows <- Windows2
  Periods = {p1, p2}
  Advances = {a1}
  Requests = {r1, r2}
  NoPeriod = NoPeriod
  GivenPeriods = {NoPeriod, p1}
  MaxLoose = 1
  MaxRepeat = 1
SYMMETRY Concurrent
CHECK_DEADLOCK FALSE
INVARIANT PaidIsBacked
