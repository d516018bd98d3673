\* What must eventually happen to an accepted booking.
SPECIFICATION AcceptedFairSpec

CONSTANTS
  Seats = {s1}
  Bookings = {b1}
  Workers = {w1, w2}
  MaxRetries = 1
  NoSeat = NoSeat
  NoBooking = NoBooking

PROPERTIES
  HoldsAreResolved
  PublishedIsSettled

CHECK_DEADLOCK FALSE
