SPECIFICATION Spec
CONSTANTS
  r1 = r1
  r2 = r2
  Slots = {s1, s2}
  Bookings = {b1, b2}
  Rooms = {r1}
  Users = {u1}
  Intents = {}
  CashIds = {}
  None = None
  Today = 1
  Days <- MCDays
  MaxFails = 0
  Requests <- OneRoom
  WebhookAdmitted = TRUE
  StaffStatuses = {"MAINTENANCE"}
INVARIANTS NoDoubleBooking
