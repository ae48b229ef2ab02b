\* Three calls that set a reminder and two that remove it, the card and the list.
CONSTANTS
  Call = {c1, c2, c3}
  Removal = {r1, r2}
  NoMessage = NoMessage
  NoHandler = NoHandler
  b1 = b1
  b2 = b2
  b3 = b3
  b4 = b4
  Booking = {b1, b2, b3, b4}
  NoBooking = NoBooking
  Of <- Bookings
  Membership <- Memberships
  Starts <- From
  Ends <- Until
  Horizon = 1
  Sittings <- OneSitting
SPECIFICATION PagesSpec
SYMMETRY Symmetric
CHECK_DEADLOCK FALSE
INVARIANTS
  PagesTypeOK
  OrphansWithinCauses
  RowNamesReminder
  BellTellsTheRow
  ListedStand
