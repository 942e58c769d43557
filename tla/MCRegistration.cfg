SPECIFICATION Spec
CONSTANTS
  Slots = {s1, s2}
  Users = {u1, u2}
  Phones = {p1, p2}
  None = None
  MaxFails = 1
SYMMETRY Symmetry
CONSTRAINT Small
CHECK_DEADLOCK FALSE
INVARIANTS TypeOK PasswordBeforeAccount PhoneRegistersOnce
PROPERTIES StagesAdvance
