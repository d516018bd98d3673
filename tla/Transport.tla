------------------------------ MODULE Transport ------------------------------
(***************************************************************************)
(* The message broker (QStash) as the code relies on it: one allocate job  *)
(* per booking, delivered until a 2xx or a 489 answer, at most MaxRetries  *)
(* times after the first delivery, and a failure callback once it gives    *)
(* up.  The broker may give up waiting for an answer while the function    *)
(* that serves the delivery is still running; the answer of a delivery the *)
(* broker no longer waits for is discarded.  The broker is not under src/. *)
(***************************************************************************)
EXTENDS Ids, Naturals

CONSTANT
  MaxRetries      \* retries: 3 in publishAllocateJob

ASSUME RetryAssumption == MaxRetries \in Nat

VARIABLES
  phase,      \* where the booking's message is
  attempt     \* Upstash-Retried of the current delivery

transportVars == <<phase, attempt>>

\* unpublished -> queued -> sent -> acked
\*                  ^        |  \-> failed -> reporting -> reported
\*                  \--------/        ^-----------/
Phases == {"unpublished", "queued", "sent", "acked", "failed", "reporting", "reported"}

TransportTypeOK ==
  /\ phase \in [Bookings -> Phases]
  /\ attempt \in [Bookings -> 0 .. MaxRetries]

TransportInit ==
  /\ phase = [b \in Bookings |-> "unpublished"]
  /\ attempt = [b \in Bookings |-> 0]

Enqueue(b) ==
  /\ phase' = [phase EXCEPT ![b] = "queued"]
  /\ UNCHANGED attempt

Move(b, from, to) ==
  /\ phase[b] = from
  /\ phase' = [phase EXCEPT ![b] = to]
  /\ UNCHANGED attempt

\* Off by one: one delivery too many.
BugRetryOrGiveUp(b) ==
  IF attempt[b] <= MaxRetries
  THEN /\ phase' = [phase EXCEPT ![b] = "queued"]
       /\ attempt' = [attempt EXCEPT ![b] = @ + 1]
  ELSE /\ phase' = [phase EXCEPT ![b] = "failed"]
       /\ UNCHANGED attempt

\* The message is published without a failureCallback.
BugNoCallback(b) ==
  IF attempt[b] < MaxRetries
  THEN /\ phase' = [phase EXCEPT ![b] = "queued"]
       /\ attempt' = [attempt EXCEPT ![b] = @ + 1]
  ELSE /\ phase' = [phase EXCEPT ![b] = "reported"]
       /\ UNCHANGED attempt

\* A delivery failed: schedule the next one, or give up.
RetryOrGiveUp(b) ==
  IF attempt[b] < MaxRetries
  THEN /\ phase' = [phase EXCEPT ![b] = "queued"]
       /\ attempt' = [attempt EXCEPT ![b] = @ + 1]
  ELSE /\ phase' = [phase EXCEPT ![b] = "failed"]
       /\ UNCHANGED attempt

\* The answer to delivery number n of b reaches the broker.
Answer(b, n, code) ==
  IF phase[b] = "sent" /\ attempt[b] = n
  THEN CASE code = 200 -> Move(b, "sent", "acked")
         [] code = 489 -> Move(b, "sent", "failed")
         [] code = 500 -> RetryOrGiveUp(b)
  ELSE UNCHANGED transportVars

\* The answer to the failure callback; anything but 2xx has it sent again.
AnswerCallback(b, code) ==
  IF phase[b] = "reporting"
  THEN Move(b, "reporting", IF code = 200 THEN "reported" ELSE "failed")
  ELSE UNCHANGED transportVars

\* The broker stops waiting: the function crashed or is too slow.
GiveUpWaiting(b) ==
  \/ phase[b] = "sent" /\ RetryOrGiveUp(b)
  \/ Move(b, "reporting", "failed")
=============================================================================
