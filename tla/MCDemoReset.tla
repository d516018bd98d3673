----------------------------- MODULE MCDemoReset -----------------------------
(***************************************************************************)
(* Model-checking companion of DemoReset.                                  *)
(***************************************************************************)
EXTENDS DemoReset, MCReservation

CONSTANT
  Late            \* bookings whose POST comes after the reset has started

\* The other jobs wait at the broker, as in MCReservation.
DemoInit ==
  /\ bookingStatus = [b \in Bookings |-> IF b \in Late THEN "ABSENT" ELSE "PENDING"]
  /\ phase = [b \in Bookings |-> IF b \in Late THEN "unpublished" ELSE "queued"]
  /\ ingress = [b \in Bookings |-> IF b \in Late THEN "idle" ELSE "accepted"]
  /\ cached = [b \in Bookings |-> IF b \in Late THEN "none" ELSE "ACCEPTED"]
  /\ seatStatus = [s \in Seats |-> "AVAILABLE"]
  /\ seatBooking = [s \in Seats |-> NoBooking]
  /\ holdLive = [s \in Seats |-> FALSE]
  /\ bookingSeat = [b \in Bookings |-> NoSeat]
  /\ payment = [b \in Bookings |-> "none"]
  /\ attempt = [b \in Bookings |-> 0]
  /\ dlq = {}
  /\ refunded = {}
  /\ pc = [w \in Workers |-> "idle"]
  /\ job = [w \in Workers |-> NoBooking]
  /\ retried = [w \in Workers |-> 0]
  /\ rows = [w \in Workers |-> {}]
  /\ began = [w \in Workers |-> FALSE]
  /\ body = [w \in Workers |-> "none"]
  /\ reset = "idle"
  /\ key = [b \in Bookings |-> b]
  /\ forgotten = {}
  /\ kept = {}

DemoSpec == DemoInit /\ [][DemoNext]_demoVars

\* Bounds: a late POST comes after the reset has started, lives to its end and has
\* a key of the last hour; its publish has not queued the message when it fails, and
\* the broker does not give up on it; a charge that fails is declined (with
\* MaxRetries = 0 a timeout is no different); and a reset that gets past its keys is
\* the last one.
Rejected == {b \in Bookings : ingress[b] \in {"unpublished", "tombstone", "rejected"}}

LatePosts ==
  /\ reset = "idle" => \A b \in Late : ingress[b] = "idle"
  /\ \A b \in Late \cap Rejected : phase[b] = "unpublished"
  /\ kept \cap Late = {}

LastReset == forgotten \cup kept # {} => reset \in {"dlq", "done", "stopped"}

GivenUp == {b \in Bookings : phase[b] \in {"failed", "reporting", "reported"}}

Bounded ==
  /\ LatePosts /\ LastReset
  /\ GivenUp \cap Late = {} /\ \A b, c \in GivenUp : b = c
  /\ \A b \in Bookings : payment[b] # "gateway_timeout" /\ ingress[b] # "dead"

\* dlq is written and never read.
WithoutDlq == <<storeVars, transportVars, ingressVars, refunded, workerVars, resetVars>>
=============================================================================
