SPECIFICATION Spec
CONSTANTS
  slab = slab walls = walls roof = roof r1 = r1 r2 = r2
  TopLevel = TopLevel
  NoDate = NoDate
  NoWrite = NoWrite
  Unsaid = Unsaid
  Tasks = {slab, walls, roof}
  Filed = {slab, walls, roof}
  Requests = {r1}
  Lengths = {1, 2}
  LinkKinds <- AllKinds
  Percents = {0, 50, 100}
  MaxDay = 1
  MaxEdits = 2
SYMMETRY Alike
INVARIANT Drawable
INVARIANT ActualsAgree
INVARIANT FloatIsWhatCanSlip
INVARIANT FreeFloatMovesNothing
CHECK_DEADLOCK FALSE
