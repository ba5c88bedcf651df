CONSTANTS
  s1 = s1
  s2 = s2
  r1 = r1
  r2 = r2
  Free = Free
  Orphan = Orphan
  Slots = {s1, s2}
  Requests = {r1, r2}
  Within <- ManualEvents
SPECIFICATION Spec
SYMMETRY Symmetry
INVARIANTS TypeOK OneReservation RowsDisjoint
PROPERTY KeepsTaskLog
CHECK_DEADLOCK FALSE
