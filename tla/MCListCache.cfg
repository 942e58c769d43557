SPECIFICATION FairSpec
CONSTANTS
  Slots = {s1, s2}
  ListKeys = {k1, k2}
  DetailKeys = {d1}
  None = None
  Ttl = 2
  MaxWrites = 2
INVARIANTS CalmIsFresh
PROPERTIES EventuallyFresh
