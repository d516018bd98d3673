--------------------------------- MODULE Ids ---------------------------------
(*****************************************************************************)
(* Identifiers shared by the components.  A booking id also names the        *)
(* booking's idempotency key and its queue message: bookings.idempotency_key *)
(* is UNIQUE and POST /api/book publishes one job per row it creates.        *)
(*****************************************************************************)
CONSTANTS
  Seats,        \* seat ids of the train
  Bookings,     \* booking ids
  NoSeat,       \* bookings.seat_id IS NULL
  NoBooking     \* seats.booking_id IS NULL

ASSUME IdsAssumption == NoSeat \notin Seats /\ NoBooking \notin Bookings
=============================================================================
