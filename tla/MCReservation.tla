---------------------------- MODULE MCReservation ----------------------------
(***************************************************************************)
(* Model-checking companion of Reservation.                                *)
(***************************************************************************)
EXTENDS Reservation, TLC

\* No definition tells one seat, worker or booking from another.
Symmetry == Permutations(Seats) \cup Permutations(Workers) \cup Permutations(Bookings)

\* No delivery has been made yet.
NothingServed ==
  /\ seatStatus = [s \in Seats |-> "AVAILABLE"]
  /\ seatBooking = [s \in Seats |-> NoBooking]
  /\ holdLive = [s \in Seats |-> FALSE]
  /\ bookingSeat = [b \in Bookings |-> NoSeat]
  /\ payment = [b \in Bookings |-> "none"]
  /\ attempt = [b \in Bookings |-> 0]
  /\ dlq = {}
  /\ refunded = {}
  /\ pc = [w \in Workers |-> "idle"]
  /\ job = [w \in Workers |-> NoBooking]
  /\ retried = [w \in Workers |-> 0]
  /\ rows = [w \in Workers |-> {}]
  /\ began = [w \in Workers |-> FALSE]
  /\ body = [w \in Workers |-> "none"]

\* Every POST has been answered with 202 and every job waits at the broker: a
\* state Init reaches.  Used where two bookings compete for seats.
AcceptedInit ==
  /\ bookingStatus = [b \in Bookings |-> "PENDING"]
  /\ phase = [b \in Bookings |-> "queued"]
  /\ ingress = [b \in Bookings |-> "accepted"]
  /\ cached = [b \in Bookings |-> "ACCEPTED"]
  /\ NothingServed

AcceptedSpec == AcceptedInit /\ [][Next]_vars

\* One POST is still to come, the others died between the INSERT and the
\* publish: another state Init reaches.
PostInit ==
  \E late \in Bookings :
    /\ bookingStatus = [b \in Bookings |-> IF b = late THEN "ABSENT" ELSE "PENDING"]
    /\ phase = [b \in Bookings |-> "unpublished"]
    /\ ingress = [b \in Bookings |-> IF b = late THEN "idle" ELSE "dead"]
    /\ cached = [b \in Bookings |-> "none"]
    /\ NothingServed

\* The bookings compete, or one of them is followed from its POST on.
ContentionSpec == (AcceptedInit \/ PostInit) /\ [][Next]_vars

\* The same start under the fairness of FairSpec.
AcceptedFairSpec == AcceptedSpec /\ Fairness

\* cached, dlq and refunded are written and never read by these actions: states
\* that differ only there have the same future in every other variable.
WithoutHistory == <<storeVars, transportVars, ingress, workerVars>>
=============================================================================
