SPECIFICATION FairSpec
CONSTANTS
  r1 = r1
  r2 = r2
  Slots = {s1}
  Bookings = {b1}
  Rooms = {r1}
  Users = {u1}
  Intents = {i1}
  CashIds = {}
  None = None
  Today = 1
  Days <- MCDays
  MaxFails = 0
  Requests <- OneStay
  WebhookAdmitted = FALSE
  StaffStatuses = {"MAINTENANCE"}
PROPERTIES CollectedIsRecorded
