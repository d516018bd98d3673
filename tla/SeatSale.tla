------------------------------ MODULE SeatSale ------------------------------
(***************************************************************************)
(* What the reservation engine promises: every booking is open until it is *)
(* decided once and for all, and a booking that is confirmed owns a seat   *)
(* nobody else owns.  Holds, payments, messages, retries and crashes are   *)
(* how the engine gets there and do not appear.                            *)
(***************************************************************************)
EXTENDS Ids

VARIABLES
  outcome,    \* what the booking has come to
  owns        \* the seat a confirmed booking has

saleVars == <<outcome, owns>>

SaleTypeOK ==
  /\ outcome \in [Bookings -> {"OPEN", "CONFIRMED", "FAILED", "EXPIRED"}]
  /\ owns \in [Bookings -> Seats \cup {NoSeat}]

SaleInit ==
  /\ outcome = [b \in Bookings |-> "OPEN"]
  /\ owns = [b \in Bookings |-> NoSeat]

Sold == {owns[b] : b \in {c \in Bookings : outcome[c] = "CONFIRMED"}}

Sell(b, s) ==
  /\ outcome[b] = "OPEN"
  /\ s \notin Sold
  /\ outcome' = [outcome EXCEPT ![b] = "CONFIRMED"]
  /\ owns' = [owns EXCEPT ![b] = s]

\* One sweep may turn several bookings down at once.
TurnDown(B, why) ==
  /\ \A b \in B : outcome[b] = "OPEN"
  /\ outcome' = [b \in Bookings |-> IF b \in B THEN why ELSE outcome[b]]
  /\ UNCHANGED owns

SaleNext ==
  \/ \E b \in Bookings, s \in Seats : Sell(b, s)
  \/ \E B \in SUBSET Bookings, why \in {"FAILED", "EXPIRED"} : TurnDown(B, why)

SaleSpec == SaleInit /\ [][SaleNext]_saleVars

\* No duplicate allocation: a seat is never in two confirmed bookings.
NoDuplicateSale ==
  \A b, c \in Bookings :
    /\ outcome[b] = "CONFIRMED" /\ outcome[c] = "CONFIRMED"
    /\ owns[b] = owns[c]
    => b = c
=============================================================================
