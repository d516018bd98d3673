\* Two accepted bookings compete for seats, or one comes with its POST.
SPECIFICATION ContentionSpec

CONSTANTS
  Seats = {s1, s2}
  Bookings = {b1, b2}
  Workers = {w1, w2}
  MaxRetries = 0
  NoSeat = NoSeat
  NoBooking = NoBooking

SYMMETRY Symmetry
VIEW WithoutHistory

INVARIANTS
  ConfirmedHasSeat

PROPERTIES
  LiveHoldIsKept
  SaleRefined

CHECK_DEADLOCK FALSE
