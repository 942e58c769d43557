SPECIFICATION FairSpec
CONSTANTS
  r1 = r1
  r2 = r2
  Slots = {s1, s2}
  Bookings = {b1}
  Rooms = {r1}
  Users = {u1}
  Intents = {i1}
  CashIds = {c1}
  None = None
  Today = 1
  Days <- MCDays
  MaxFails = 1
  Requests <- OneStay
  WebhookAdmitted = TRUE
  StaffStatuses = {"MAINTENANCE"}
INVARIANTS NoFreeConfirmation EventFindsPayment CompletedWasCollected
PROPERTIES CollectedIsRecorded ConfirmedUnlessRequestFailed
