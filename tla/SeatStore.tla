------------------------------ MODULE SeatStore ------------------------------
(***************************************************************************)
(* The Postgres side of the reservation engine: the tables seats, bookings *)
(* and payments and the stored functions that change them.  Each operator  *)
(* below is the effect of one SQL statement (or of one whole function when *)
(* it is a single statement): under READ COMMITTED every statement of a    *)
(* plpgsql function takes a snapshot of its own, so another transaction    *)
(* may commit between two of them.  A row an open transaction has updated  *)
(* is locked until commit; the effect of such an update is therefore put   *)
(* at the last statement of its function, where it becomes visible.        *)
(*                                                                         *)
(* One train is modelled: no statement relates seats of two trains.  The   *)
(* clock appears only as holdLive[s], "held_until > now()".                *)
(***************************************************************************)
EXTENDS Ids

VARIABLES
  seatStatus,     \* seats.status
  seatBooking,    \* seats.booking_id
  holdLive,       \* seats.held_until > now()
  bookingStatus,  \* bookings.status, "ABSENT" before the row is inserted
  bookingSeat,    \* bookings.seat_id
  payment         \* the payments row of the booking's idempotency key

seatVars    == <<seatStatus, seatBooking, holdLive>>
bookingVars == <<bookingStatus, bookingSeat>>
storeVars   == <<seatStatus, seatBooking, holdLive, bookingStatus, bookingSeat, payment>>

SeatStates    == {"AVAILABLE", "RESERVED", "CONFIRMED"}
Terminal      == {"CONFIRMED", "FAILED", "EXPIRED"}
BookingStates == {"ABSENT", "PENDING"} \cup Terminal
PaymentStates == {"none", "succeeded", "gateway_timeout", "payment_declined"}

StoreTypeOK ==
  /\ seatStatus \in [Seats -> SeatStates]
  /\ seatBooking \in [Seats -> Bookings \cup {NoBooking}]
  /\ holdLive \in [Seats -> BOOLEAN]
  /\ bookingStatus \in [Bookings -> BookingStates]
  /\ bookingSeat \in [Bookings -> Seats \cup {NoSeat}]
  /\ payment \in [Bookings -> PaymentStates]

StoreInit ==
  /\ seatStatus = [s \in Seats |-> "AVAILABLE"]
  /\ seatBooking = [s \in Seats |-> NoBooking]
  /\ holdLive = [s \in Seats |-> FALSE]
  /\ bookingStatus = [b \in Bookings |-> "ABSENT"]
  /\ bookingSeat = [b \in Bookings |-> NoSeat]
  /\ payment = [b \in Bookings |-> "none"]

-----------------------------------------------------------------------------
(* Row predicates the WHERE clauses are made of.  A name that starts with Bug *)
(* is the definition after it with a plausible mistake: the properties are    *)
(* required to notice.                                                        *)

\* Anything that is not on hold is for sale.
BugFree == {s \in Seats : seatStatus[s] # "RESERVED"}

Free == {s \in Seats : seatStatus[s] = "AVAILABLE"}

\* The release functions forget AND status = 'RESERVED'.
BugHeldBy(b) == {s \in Seats : seatBooking[s] = b}

HeldBy(b) == {s \in Seats : seatStatus[s] = "RESERVED" /\ seatBooking[s] = b}

LiveHolds(b) == {s \in HeldBy(b) : holdLive[s]}

\* The sweeper forgets AND held_until < now().
BugExpiredHolds == {s \in Seats : seatStatus[s] = "RESERVED"}

\* The sweeper joins on bookings that are still PENDING.
BugPendingHolds ==
  {s \in Seats : /\ seatStatus[s] = "RESERVED" /\ ~holdLive[s]
                 /\ \E b \in Bookings : seatBooking[s] = b /\ bookingStatus[b] = "PENDING"}

ExpiredHolds == {s \in Seats : seatStatus[s] = "RESERVED" /\ ~holdLive[s]}

-----------------------------------------------------------------------------
(* Statements on seats. *)

\* allocate_seat, second statement: one AVAILABLE seat becomes a fresh hold.
Reserve(s, b) ==
  /\ seatStatus' = [seatStatus EXCEPT ![s] = "RESERVED"]
  /\ seatBooking' = [seatBooking EXCEPT ![s] = b]
  /\ holdLive' = [holdLive EXCEPT ![s] = TRUE]

\* The SET list shared by both release functions and the sweeper.
Vacate(S) ==
  /\ seatStatus' = [s \in Seats |-> IF s \in S THEN "AVAILABLE" ELSE seatStatus[s]]
  /\ seatBooking' = [s \in Seats |-> IF s \in S THEN NoBooking ELSE seatBooking[s]]
  /\ holdLive' = [s \in Seats |-> IF s \in S THEN FALSE ELSE holdLive[s]]

\* confirm_booking, the UPDATE on seats.
SealSeat(s) ==
  /\ seatStatus' = [seatStatus EXCEPT ![s] = "CONFIRMED"]
  /\ holdLive' = [holdLive EXCEPT ![s] = FALSE]
  /\ UNCHANGED seatBooking

-----------------------------------------------------------------------------
(* Statements on bookings; all but the INSERT carry WHERE status = 'PENDING'. *)

\* id and idempotency_key are unique: there is no such row yet.
InsertBooking(b) ==
  /\ bookingStatus[b] = "ABSENT"
  /\ bookingStatus' = [bookingStatus EXCEPT ![b] = "PENDING"]
  /\ UNCHANGED bookingSeat

\* The UPDATE without AND status = 'PENDING'.
BugFailIfPending(b) ==
  /\ bookingStatus' = [bookingStatus EXCEPT ![b] = "FAILED"]
  /\ UNCHANGED bookingSeat

\* UPDATE bookings SET status = 'FAILED' WHERE id = b AND status = 'PENDING'.
FailIfPending(b) ==
  /\ bookingStatus' = [bookingStatus EXCEPT ![b] = IF @ = "PENDING" THEN "FAILED" ELSE @]
  /\ UNCHANGED bookingSeat

\* UPDATE bookings SET status = 'EXPIRED' WHERE id IN B AND status = 'PENDING'.
ExpireIfPending(B) ==
  /\ bookingStatus' = [b \in Bookings |->
                         IF b \in B /\ bookingStatus[b] = "PENDING"
                           THEN "EXPIRED" ELSE bookingStatus[b]]
  /\ UNCHANGED bookingSeat

ConfirmBookingRow(b, s) ==
  /\ bookingStatus' = [bookingStatus EXCEPT ![b] = "CONFIRMED"]
  /\ bookingSeat' = [bookingSeat EXCEPT ![b] = s]

-----------------------------------------------------------------------------
(* Whole functions that are one statement, and the passage of time. *)

release_hold_retryable(b) ==
  /\ Vacate(HeldBy(b))
  /\ UNCHANGED <<bookingStatus, bookingSeat, payment>>

\* The advisory lock only makes a concurrent sweep a no-op; one CTE statement
\* then vacates every expired hold and expires the bookings that held them.
sweep_expired_holds ==
  /\ ExpiredHolds # {}
  /\ ExpireIfPending({seatBooking[s] : s \in ExpiredHolds})
  /\ Vacate(ExpiredHolds)
  /\ UNCHANGED payment

\* held_until passes.
HoldExpires(s) ==
  /\ seatStatus[s] = "RESERVED"
  /\ holdLive[s]
  /\ holdLive' = [holdLive EXCEPT ![s] = FALSE]
  /\ UNCHANGED <<seatStatus, seatBooking, bookingStatus, bookingSeat, payment>>
=============================================================================
