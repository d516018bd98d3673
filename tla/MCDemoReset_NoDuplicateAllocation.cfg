\* A documented claim the code does not keep.
SPECIFICATION DemoSpec

CONSTANTS
  Seats = {s1}
  Bookings = {b1, b2}
  Late = {}
  Workers = {w1}
  MaxRetries = 0
  NoSeat = NoSeat
  NoBooking = NoBooking

CONSTRAINT Bounded
VIEW WithoutDlq

INVARIANT
  NoDuplicateAllocation

CHECK_DEADLOCK FALSE
