\* One booking, delivered to two invocations at a time and retried from the DLQ.
SPECIFICATION DlqSpec

CONSTANTS
  Seats = {s1, s2}
  Bookings = {b1}
  Workers = {w1, w2}
  MaxRetries = 1
  NoSeat = NoSeat
  NoBooking = NoBooking

SYMMETRY Symmetry

INVARIANTS
  TypeOK
  PaidBeforeConfirmed
  CachedOutcomeIsReal

PROPERTIES
  TerminalIsFinal
  SoldSeatIsFinal

CHECK_DEADLOCK FALSE
