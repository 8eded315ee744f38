SPECIFICATION KeySpec
CONSTANTS
  a1 = a1
  a2 = a2
  a3 = a3
  a4 = a4
  expense = expense
  otherExpense = otherExpense
  Calls = {a1, a2, a3, a4}
  Bodies = {expense, otherExpense}
  NoCall = NoCall
  MaxDeaths = 2
SYMMETRY Symmetry
INVARIANT NothingTwice
INVARIANT ReplayIsTrue
CHECK_DEADLOCK FALSE
