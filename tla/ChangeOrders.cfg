SPECIFICATION Spec
CONSTANTS
  o1 = o1 o2 = o2 a1 = a1 a2 = a2 r1 = r1 r2 = r2
  Orders = {o1, o2}
  Approvals = {a1, a2}
  Codes = {1, 2}
  Requests = {r1, r2}
  Offers <- AddedAndCredited
  Budgets = {1}
  Contracts = {5, 6}
  Racing <- WithoutLocks
  MaxRevision = 1
  MaxEdits = 1
  NoOrder = NoOrder
  NoApproval = NoApproval
SYMMETRY Interchangeable
INVARIANT TypeOK
INVARIANT AnswerTakesEffect
INVARIANT HistoryAddsUp
INVARIANT ContractAddsUp
INVARIANT NoStandoff
PROPERTY AgreedIsKept
CHECK_DEADLOCK FALSE
