\* Two POSTs with one key, of one body or of two, in front of the engine.
SPECIFICATION AdmissionSpec

CONSTANTS
  Seats = {s1}
  Bookings = {b1}
  Workers = {w1}
  MaxRetries = 0
  NoSeat = NoSeat
  NoBooking = NoBooking
  Requests = {r1, r2}
  Hashes = {h1, h2}
  NoHash = NoHash

SYMMETRY Symmetry

INVARIANTS
  AdmissionTypeOK
  OneFreshRequest
  RepliesMatchBody
  AcceptedIsPublished

CHECK_DEADLOCK FALSE
