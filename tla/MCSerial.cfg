SPECIFICATION Spec
CONSTANTS
  r1 = r1
  r2 = r2
  Slots = {s1}
  Bookings = {b1, b2}
  Rooms = {r1, r2}
  Users = {u1}
  Intents = {i1, i2}
  CashIds = {c1}
  None = None
  Today = 1
  Days <- MCDays
  MaxFails = 1
  Requests <- TwoRooms
  WebhookAdmitted = TRUE
  StaffStatuses = {"OCCUPIED"}
SYMMETRY Symmetry
INVARIANTS TypeOK NoDoubleBooking AtMostOnePendingPayment OccupiedHasGuest
PROPERTIES ImplementsLifecycle
