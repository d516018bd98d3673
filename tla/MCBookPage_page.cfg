\* Two bookings made from one page.
SPECIFICATION PageFairSpec

CONSTANTS
  Seats = {s1, s2}
  Bookings = {b1, b2}
  POLL_MAX = 2
  NoSeat = NoSeat
  NoBooking = NoBooking

INVARIANTS
  PageTypeOK
  ShownIsReal
  OneChainPerBooking

PROPERTY
  PollingEnds

CHECK_DEADLOCK FALSE
