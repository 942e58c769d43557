SPECIFICATION Spec
CONSTANTS
  Slots = {s1}
  Users = {u1, u2}
  Phones = {p1, p2}
  None = None
  MaxFails = 0
SYMMETRY Symmetry
CONSTRAINT Small
CHECK_DEADLOCK FALSE
INVARIANTS OneAccountPerPhone
