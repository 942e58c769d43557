SPECIFICATION Spec
CONSTANTS
  n1 = n1
  n2 = n2
  Runs = {n1, n2}
  Plans <- MCPlans
  Scenes <- MCScenes
  None = None
INVARIANTS OneRowPerKey AloneEndsWell RoomTypeOfItsHotel
PROPERTIES EventuallySeeded
