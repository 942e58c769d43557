SPECIFICATION Spec
CONSTANTS
  Slots = {s1, s2}
  Users = {u1}
  Phones = {p1}
  None = None
  MaxFails = 0
SYMMETRY Symmetry
CHECK_DEADLOCK FALSE
INVARIANTS AccountHasPassword
