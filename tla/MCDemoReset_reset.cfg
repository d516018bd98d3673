\* Reset against running invocations; one booking is asked for meanwhile.
SPECIFICATION DemoSpec

CONSTANTS
  Seats = {s1}
  Bookings = {b1, b2}
  Late = {b2}
  Workers = {w1}
  MaxRetries = 0
  NoSeat = NoSeat
  NoBooking = NoBooking

CONSTRAINT Bounded
VIEW WithoutDlq

INVARIANTS
  ResetTypeOK
  ResetKeepsSaleConsistent
  ResetKeysStayDeleted

PROPERTIES
  StaleJobTakesNothing

CHECK_DEADLOCK FALSE
