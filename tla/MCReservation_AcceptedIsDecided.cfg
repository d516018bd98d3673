\* A documented claim the code does not keep.
SPECIFICATION AcceptedFairSpec

CONSTANTS
  Seats = {s1, s2}
  Bookings = {b1}
  Workers = {w1, w2}
  MaxRetries = 1
  NoSeat = NoSeat
  NoBooking = NoBooking

PROPERTY
  AcceptedIsDecided

CHECK_DEADLOCK FALSE
