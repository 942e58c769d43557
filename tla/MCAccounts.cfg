SPECIFICATION MCSpec
CONSTANTS
  Slots = {s1}
  Users = {u1}
  Admins = {a1}
  Tokens = {t1, t2}
  Codes = {c1, c2}
  Passwords = {p1, p2}
  None = None
  MaxAttempts = 2
  MaxOtps = 2
  MaxExchanges = 1
  MaxFails = 1
SYMMETRY Symmetry
CHECK_DEADLOCK FALSE
INVARIANTS TypeOK OneSession SessionHasPassword CodeSignsInOnce TwoFactorIsConfirmed TriesAreCounted
