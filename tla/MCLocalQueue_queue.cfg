\* Two bookings of one train and a seat for one of them.
SPECIFICATION MCSpec

CONSTANTS
  Seats = {s1}
  Bookings = {b1, b2}
  Workers = {w1, w2}
  MaxRetries = 1
  MaxLate = 1
  NoSeat = NoSeat
  NoBooking = NoBooking

INVARIANTS
  LocalTypeOK

PROPERTIES
  SoldOutInOrder
  LocalSaleRefined
  JobsAreTaken

CHECK_DEADLOCK FALSE
