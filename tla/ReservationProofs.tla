-------------------------- MODULE ReservationProofs --------------------------
(***************************************************************************)
(* Theorems about Reservation, for any number of seats, bookings and       *)
(* concurrent invocations and any retry budget.                            *)
(***************************************************************************)
EXTENDS Reservation, TLAPS

\* A running invocation serves a booking.
BusyHasJob == \A w \in Workers : pc[w] # "idle" => job[w] \in Bookings

Typed == TypeOK /\ BusyHasJob

-----------------------------------------------------------------------------
(* What the helpers preserve. *)

\* The answer to a delivery leaves the broker in a legal state.
LEMMA AnswerType ==
  ASSUME TransportTypeOK, NEW b \in Bookings, NEW n, NEW code \in {200, 489, 500},
         Answer(b, n, code)
  PROVE  TransportTypeOK'
<1> USE DEF TransportTypeOK, Phases
<1>1. CASE ~(phase[b] = "sent" /\ attempt[b] = n)
  <2>1. UNCHANGED transportVars
    BY <1>1 DEF Answer
  <2> QED
    BY <2>1 DEF transportVars
<1>2. CASE phase[b] = "sent" /\ attempt[b] = n
  <2>1. CASE code = 200
    BY <1>2, <2>1 DEF Answer, Move
  <2>2. CASE code = 489
    BY <1>2, <2>2 DEF Answer, Move
  <2>3. CASE code = 500
    <3>1. RetryOrGiveUp(b)
      BY <1>2, <2>3 DEF Answer
    <3> QED
      BY <3>1, RetryAssumption DEF RetryOrGiveUp
  <2> QED
    BY <2>1, <2>2, <2>3
<1> QED
  BY <1>1, <1>2

\* So does the answer to a failure callback.
LEMMA AnswerCallbackType ==
  ASSUME TransportTypeOK, NEW b \in Bookings, NEW code, AnswerCallback(b, code)
  PROVE  TransportTypeOK'
BY DEF TransportTypeOK, Phases, AnswerCallback, Move, transportVars

\* An invocation that ends leaves an idle worker.
LEMMA FinishType ==
  ASSUME Typed, NEW w \in Workers, Finish(w)
  PROVE  WorkerTypeOK' /\ BusyHasJob'
BY RetryAssumption DEF Typed, TypeOK, WorkerTypeOK, BusyHasJob, Finish, Steps, Bodies

\* An invocation that ends with an answer.
LEMMA RespondType ==
  ASSUME Typed, NEW w \in Workers, pc[w] # "idle", NEW code \in {200, 489, 500},
         Respond(w, code)
  PROVE  TransportTypeOK' /\ WorkerTypeOK' /\ BusyHasJob'
<1>1. job[w] \in Bookings
  BY DEF Typed, BusyHasJob
<1>2. TransportTypeOK'
  BY <1>1, AnswerType, AnswerCallbackType DEF Respond, Typed, TypeOK
<1>3. WorkerTypeOK' /\ BusyHasJob'
  BY FinishType DEF Respond
<1> QED
  BY <1>2, <1>3

\* A worker that moves on.
LEMMA StepType ==
  ASSUME Typed, NEW w \in Workers, NEW from \in Steps \ {"idle"}, NEW to \in Steps,
         Step(w, from, to)
  PROVE  /\ TransportTypeOK' /\ BusyHasJob'
         /\ ingress' = ingress /\ cached' = cached
         /\ pc' \in [Workers -> Steps]
         /\ job' \in [Workers -> Bookings \cup {NoBooking}]
         /\ retried' \in [Workers -> 0 .. MaxRetries]
         /\ job[w] \in Bookings
BY DEF Typed, TypeOK, TransportTypeOK, WorkerTypeOK, BusyHasJob, Step, transportVars,
       ingressVars

\* Seats that are freed, reserved or sealed keep their types.
LEMMA SeatTypes ==
  ASSUME StoreTypeOK
  PROVE  /\ \A S : Vacate(S) => /\ seatStatus' \in [Seats -> SeatStates]
                                /\ seatBooking' \in [Seats -> Bookings \cup {NoBooking}]
                                /\ holdLive' \in [Seats -> BOOLEAN]
         /\ \A s \in Seats, b \in Bookings :
              Reserve(s, b) => /\ seatStatus' \in [Seats -> SeatStates]
                               /\ seatBooking' \in [Seats -> Bookings \cup {NoBooking}]
                               /\ holdLive' \in [Seats -> BOOLEAN]
         /\ \A s \in Seats :
              SealSeat(s) => /\ seatStatus' \in [Seats -> SeatStates]
                             /\ seatBooking' \in [Seats -> Bookings \cup {NoBooking}]
                             /\ holdLive' \in [Seats -> BOOLEAN]
BY DEF StoreTypeOK, SeatStates, Vacate, Reserve, SealSeat

-----------------------------------------------------------------------------
(* Types. *)

\* One statement of a worker keeps all types.
LEMMA WorkerStepType ==
  ASSUME Typed, NEW w \in Workers, WorkerStep(w)
  PROVE  Typed'
<1> USE DEF Typed, TypeOK, storeVars, auditVars, ingressVars
<1>1. CASE SeesPending(w)
  BY <1>1, StepType DEF SeesPending, Steps, StoreTypeOK, IngressTypeOK, WorkerTypeOK
<1>2. CASE AlreadyTerminal(w)
  BY <1>2, RespondType DEF AlreadyTerminal, StoreTypeOK, IngressTypeOK
<1>3. CASE ReuseHold(w)
  BY <1>3, StepType DEF ReuseHold, Steps, StoreTypeOK, IngressTypeOK, WorkerTypeOK,
                        LiveHolds, HeldBy
<1>4. CASE NoHoldYet(w)
  BY <1>4, StepType DEF NoHoldYet, Steps, StoreTypeOK, IngressTypeOK, WorkerTypeOK
<1>5. CASE AllocateSeat(w)
  <2>1. /\ TransportTypeOK' /\ BusyHasJob' /\ IngressTypeOK'
        /\ job[w] \in Bookings
    BY <1>5, StepType DEF AllocateSeat, Steps, IngressTypeOK
  <2>2. StoreTypeOK'
    BY <1>5, <2>1, SeatTypes DEF AllocateSeat, StoreTypeOK, bookingVars, Free
  <2>3. WorkerTypeOK'
    BY <1>5, StepType DEF AllocateSeat, Steps, WorkerTypeOK, Free
  <2> QED
    BY <2>1, <2>2, <2>3
<1>6. CASE SoldOut(w)
  BY <1>6, StepType DEF SoldOut, GoTerminal, Forget, Steps, Bodies, StoreTypeOK, IngressTypeOK,
                        WorkerTypeOK
<1>7. CASE LookupPayment(w)
  BY <1>7, StepType DEF LookupPayment, GoTerminal, Forget, Steps, Bodies, StoreTypeOK,
                        IngressTypeOK, WorkerTypeOK
<1>8. CASE InsertPayment(w)
  BY <1>8, StepType DEF InsertPayment, Steps, StoreTypeOK, IngressTypeOK, WorkerTypeOK,
                        seatVars, bookingVars
<1>9. CASE PaymentUnavailable(w)
  BY <1>9, StepType DEF PaymentUnavailable, GoTerminal, Forget, Steps, Bodies, StoreTypeOK,
                        IngressTypeOK, WorkerTypeOK
<1>10. CASE ReleaseForRetry(w)
  BY <1>10, RespondType, SeatTypes
  DEF ReleaseForRetry, release_hold_retryable, StoreTypeOK, IngressTypeOK
<1>11. CASE ConfirmReads(w)
  BY <1>11, StepType DEF ConfirmReads, Forget, Steps, StoreTypeOK, IngressTypeOK, WorkerTypeOK
<1>12. CASE Confirm(w)
  <2>1. /\ TransportTypeOK' /\ BusyHasJob' /\ IngressTypeOK' /\ WorkerTypeOK'
        /\ job[w] \in Bookings
    BY <1>12, StepType DEF Confirm, Forget, Steps, Bodies, IngressTypeOK, WorkerTypeOK
  <2>2. StoreTypeOK'
    BY <1>12, <2>1, SeatTypes
    DEF Confirm, ConfirmBookingRow, StoreTypeOK, BookingStates, Terminal
  <2> QED
    BY <2>1, <2>2
<1>13. CASE ConfirmSeatOnly(w)
  <2>1. /\ TransportTypeOK' /\ BusyHasJob' /\ IngressTypeOK' /\ WorkerTypeOK'
    BY <1>13, StepType DEF ConfirmSeatOnly, Forget, Steps, IngressTypeOK, WorkerTypeOK
  <2>2. StoreTypeOK'
    BY <1>13, SeatTypes DEF ConfirmSeatOnly, StoreTypeOK, bookingVars
  <2> QED
    BY <2>1, <2>2
<1>14. CASE ConfirmNothing(w)
  BY <1>14, StepType DEF ConfirmNothing, Forget, Steps, StoreTypeOK, IngressTypeOK, WorkerTypeOK
<1>15. CASE Refund(w)
  BY <1>15, StepType DEF Refund, Steps, Bodies, StoreTypeOK, IngressTypeOK, WorkerTypeOK
<1>16. CASE InsertDlqJob(w)
  BY <1>16, StepType DEF InsertDlqJob, Steps, StoreTypeOK, IngressTypeOK, WorkerTypeOK
<1>17. CASE Unseat(w)
  BY <1>17, StepType DEF Unseat, Steps, StoreTypeOK, IngressTypeOK, WorkerTypeOK, HeldBy
<1>18. CASE FailBooking(w)
  <2>1. /\ TransportTypeOK' /\ BusyHasJob' /\ IngressTypeOK' /\ WorkerTypeOK'
    BY <1>18, StepType DEF FailBooking, Forget, Steps, IngressTypeOK, WorkerTypeOK
  <2>2. StoreTypeOK'
    BY <1>18, SeatTypes DEF FailBooking, FailIfPending, StoreTypeOK, BookingStates, Terminal
  <2> QED
    BY <2>1, <2>2
<1>19. CASE CacheAndRespond(w)
  <2>1. TransportTypeOK' /\ WorkerTypeOK' /\ BusyHasJob'
    BY <1>19, RespondType DEF CacheAndRespond
  <2>2. StoreTypeOK' /\ IngressTypeOK'
    BY <1>19 DEF CacheAndRespond, StatusOf, StoreTypeOK, IngressTypeOK, CacheStates, Terminal
  <2> QED
    BY <2>1, <2>2
<1> QED
  BY <1>1, <1>2, <1>3, <1>4, <1>5, <1>6, <1>7, <1>8, <1>9, <1>10, <1>11, <1>12, <1>13,
     <1>14, <1>15, <1>16, <1>17, <1>18, <1>19 DEF WorkerStep

\* So does one statement of POST /api/book.
LEMMA IngressType ==
  ASSUME Typed, NEW b \in Bookings, IngressNext(b)
  PROVE  Typed'
<1> USE DEF Typed, TypeOK, BusyHasJob, StoreTypeOK, TransportTypeOK, IngressTypeOK,
            WorkerTypeOK, storeVars, seatVars, bookingVars, transportVars, workerVars,
            auditVars, BookingStates, Terminal, Phases, IngressStates, CacheStates
<1>1. CASE CreateBooking(b)
  BY <1>1 DEF CreateBooking, Ingress, InsertBooking
<1>2. CASE PublishAllocateJob(b)
  BY <1>2 DEF PublishAllocateJob, Ingress, Enqueue
<1>3. CASE PublishFails(b)
  BY <1>3 DEF PublishFails, Ingress, Enqueue
<1>4. CASE MarkUnpublished(b)
  BY <1>4 DEF MarkUnpublished, Ingress, FailIfPending
<1>5. CASE CacheRejected(b)
  BY <1>5 DEF CacheRejected, Ingress
<1>6. CASE CacheAccepted(b)
  BY <1>6 DEF CacheAccepted, Ingress
<1>7. CASE IngressDies(b)
  BY <1>7 DEF IngressDies
<1> QED
  BY <1>1, <1>2, <1>3, <1>4, <1>5, <1>6, <1>7 DEF IngressNext

\* Typed is inductive.
LEMMA TypedStep == Typed /\ [Next]_vars => Typed'
<1> SUFFICES ASSUME Typed, [Next]_vars PROVE Typed'
  OBVIOUS
<1> USE DEF Typed, TypeOK, storeVars, ingressVars, auditVars
<1>1. ASSUME NEW b \in Bookings, IngressNext(b) PROVE Typed'
  BY <1>1, IngressType
<1>2. ASSUME NEW b \in Bookings, BrokerGivesUp(b) PROVE Typed'
  BY <1>2, RetryAssumption
  DEF BrokerGivesUp, GiveUpWaiting, RetryOrGiveUp, Move, StoreTypeOK, TransportTypeOK,
      IngressTypeOK, WorkerTypeOK, workerVars, BusyHasJob, Phases
<1>3. ASSUME NEW w \in Workers, NEW b \in Bookings, Deliver(w, b) PROVE Typed'
  BY <1>3
  DEF Deliver, Move, StoreTypeOK, TransportTypeOK, IngressTypeOK, WorkerTypeOK,
      BusyHasJob, Phases, Steps
<1>4. ASSUME NEW w \in Workers, NEW b \in Bookings, DeliverCallback(w, b) PROVE Typed'
  BY <1>4
  DEF DeliverCallback, Move, StoreTypeOK, TransportTypeOK, IngressTypeOK, WorkerTypeOK,
      BusyHasJob, Phases, Steps, Bodies
<1>5. ASSUME NEW w \in Workers, WorkerStep(w) PROVE Typed'
  BY <1>5, WorkerStepType
<1>6. ASSUME NEW w \in Workers, Throws(w) PROVE Typed'
  BY <1>6, RespondType DEF Throws, StoreTypeOK, IngressTypeOK
<1>7. ASSUME NEW w \in Workers, Dies(w) PROVE Typed'
  BY <1>7, FinishType DEF Dies, StoreTypeOK, TransportTypeOK, IngressTypeOK, transportVars
<1>8. ASSUME NEW s \in Seats, Expire(s) PROVE Typed'
  BY <1>8
  DEF Expire, HoldExpires, StoreTypeOK, TransportTypeOK, IngressTypeOK, WorkerTypeOK,
      transportVars, workerVars, BusyHasJob
<1>9. CASE Sweep
  <2>1. StoreTypeOK'
    BY <1>9, SeatTypes
    DEF Sweep, sweep_expired_holds, ExpireIfPending, StoreTypeOK, BookingStates, Terminal
  <2> QED
    BY <1>9, <2>1
    DEF Sweep, TransportTypeOK, IngressTypeOK, WorkerTypeOK, transportVars, workerVars,
        BusyHasJob
<1>10. CASE UNCHANGED vars
  BY <1>10
  DEF vars, StoreTypeOK, TransportTypeOK, IngressTypeOK, WorkerTypeOK, transportVars,
      workerVars, BusyHasJob
<1> QED
  BY <1>1, <1>2, <1>3, <1>4, <1>5, <1>6, <1>7, <1>8, <1>9, <1>10 DEF Next

\* Typed holds initially.
LEMMA InitTyped == Init => Typed
BY RetryAssumption
DEF Init, StoreInit, TransportInit, Typed, TypeOK, BusyHasJob, StoreTypeOK,
    TransportTypeOK, IngressTypeOK, WorkerTypeOK, SeatStates, BookingStates,
    PaymentStates, Phases, IngressStates, CacheStates, Steps, Bodies

\* Every variable keeps its type, and every running invocation serves a booking.
THEOREM Typing == Spec => [](TypeOK /\ BusyHasJob)
<1> QED
  BY InitTyped, TypedStep, PTL DEF Spec, Typed

-----------------------------------------------------------------------------
(* What a step may do to the tables. *)

\* Sold seats, decided bookings and successful charges are kept, and a booking
\* becomes CONFIRMED only by the two UPDATEs of confirm_booking.
StoreKept ==
  /\ \A s \in Seats : seatStatus[s] = "CONFIRMED" =>
       seatStatus'[s] = "CONFIRMED" /\ seatBooking'[s] = seatBooking[s]
  /\ \A b \in Bookings : bookingStatus[b] \in Terminal =>
       bookingStatus'[b] = bookingStatus[b] /\ bookingSeat'[b] = bookingSeat[b]
  /\ \A b \in Bookings : payment[b] = "succeeded" => payment'[b] = "succeeded"
  /\ \A b \in Bookings : bookingStatus'[b] = "CONFIRMED" /\ bookingStatus[b] # "CONFIRMED" =>
       \E w \in Workers : Confirm(w) /\ job[w] = b

\* A step that leaves the tables alone keeps everything.
LEMMA StoreUnchanged ==
  ASSUME UNCHANGED storeVars
  PROVE  StoreKept
BY DEF StoreKept, storeVars

\* Freeing holds takes no sold seat and no bookings row.
LEMMA VacateKeeps ==
  ASSUME Typed, NEW S \in SUBSET Seats, \A s \in S : seatStatus[s] = "RESERVED", Vacate(S)
  PROVE  \A s \in Seats : seatStatus[s] = "CONFIRMED" =>
           seatStatus'[s] = "CONFIRMED" /\ seatBooking'[s] = seatBooking[s]
BY DEF Vacate

\* The guarded UPDATE to FAILED leaves decided bookings as they are.
LEMMA FailKeeps ==
  ASSUME Typed, NEW b \in Bookings, FailIfPending(b)
  PROVE  /\ \A c \in Bookings : bookingStatus[c] \in Terminal =>
              bookingStatus'[c] = bookingStatus[c] /\ bookingSeat'[c] = bookingSeat[c]
         /\ \A c \in Bookings : bookingStatus'[c] = "CONFIRMED" => bookingStatus[c] = "CONFIRMED"
BY DEF Typed, TypeOK, StoreTypeOK, FailIfPending, Terminal

\* Confirm takes a seat RESERVED for the worker's own PENDING booking.
LEMMA ConfirmEffect ==
  ASSUME Typed, NEW w \in Workers, Confirm(w)
  PROVE  /\ job[w] \in Bookings
         /\ bookingStatus[job[w]] = "PENDING"
         /\ \E s \in Seats :
              /\ seatStatus[s] = "RESERVED" /\ seatBooking[s] = job[w]
              /\ seatStatus' = [seatStatus EXCEPT ![s] = "CONFIRMED"]
              /\ seatBooking' = seatBooking
              /\ bookingStatus' = [bookingStatus EXCEPT ![job[w]] = "CONFIRMED"]
              /\ bookingSeat' = [bookingSeat EXCEPT ![job[w]] = s]
              /\ payment' = payment
BY DEF Typed, TypeOK, WorkerTypeOK, BusyHasJob, Confirm, CanSeal, HeldBy, SealSeat,
       ConfirmBookingRow

\* One statement of a worker keeps sold seats, decided bookings and charges.
LEMMA WorkerStepKeeps ==
  ASSUME Typed, NEW w \in Workers, WorkerStep(w)
  PROVE  StoreKept
<1> USE DEF Typed, TypeOK
<1>1. CASE SeesPending(w) \/ AlreadyTerminal(w) \/ ReuseHold(w) \/ NoHoldYet(w)
        \/ SoldOut(w) \/ LookupPayment(w) \/ PaymentUnavailable(w) \/ ConfirmReads(w)
        \/ ConfirmNothing(w) \/ Refund(w) \/ InsertDlqJob(w) \/ Unseat(w) \/ CacheAndRespond(w)
  <2>1. UNCHANGED storeVars
    BY <1>1
    DEF SeesPending, AlreadyTerminal, ReuseHold, NoHoldYet, SoldOut, GoTerminal,
        LookupPayment, PaymentUnavailable, ConfirmReads, ConfirmNothing, Refund,
        InsertDlqJob, Unseat, CacheAndRespond
  <2> QED
    BY <2>1, StoreUnchanged
<1>2. CASE AllocateSeat(w)
  BY <1>2 DEF AllocateSeat, Free, Reserve, bookingVars, StoreTypeOK, StoreKept
<1>3. CASE InsertPayment(w)
  <2>1. job[w] \in Bookings
    BY <1>3 DEF InsertPayment, BusyHasJob
  <2> QED
    BY <1>3, <2>1 DEF InsertPayment, seatVars, bookingVars, StoreTypeOK, StoreKept
<1>4. CASE ReleaseForRetry(w)
  BY <1>4, VacateKeeps DEF ReleaseForRetry, release_hold_retryable, HeldBy, StoreKept
<1>5. CASE Confirm(w)
  BY <1>5, ConfirmEffect DEF StoreTypeOK, StoreKept, Terminal
<1>6. CASE ConfirmSeatOnly(w)
  BY <1>6 DEF ConfirmSeatOnly, CanSeal, HeldBy, SealSeat, bookingVars, StoreTypeOK, StoreKept
<1>7. CASE FailBooking(w)
  <2>1. job[w] \in Bookings
    BY <1>7 DEF FailBooking, Step, BusyHasJob
  <2>2. rows[w] \cap HeldBy(job[w]) \in SUBSET Seats
    BY DEF HeldBy
  <2> QED
    BY <1>7, <2>1, <2>2, VacateKeeps, FailKeeps DEF FailBooking, HeldBy, StoreKept
<1> QED
  BY <1>1, <1>2, <1>3, <1>4, <1>5, <1>6, <1>7 DEF WorkerStep

\* POST /api/book inserts a row and, when it rolls back, fails a PENDING one.
LEMMA IngressKeeps ==
  ASSUME Typed, NEW b \in Bookings, IngressNext(b)
  PROVE  StoreKept
<1>1. CASE CreateBooking(b)
  BY <1>1
  DEF CreateBooking, InsertBooking, seatVars, Typed, TypeOK, StoreTypeOK, StoreKept, Terminal
<1>2. CASE MarkUnpublished(b)
  <2>1. seatStatus' = seatStatus /\ seatBooking' = seatBooking /\ payment' = payment
    BY <1>2 DEF MarkUnpublished, seatVars
  <2>2. CASE FailIfPending(b)
    BY <2>1, <2>2, FailKeeps DEF StoreKept
  <2>3. CASE UNCHANGED bookingVars
    BY <2>1, <2>3 DEF bookingVars, StoreKept
  <2> QED
    BY <1>2, <2>2, <2>3 DEF MarkUnpublished
<1>3. CASE PublishAllocateJob(b) \/ PublishFails(b) \/ CacheRejected(b) \/ CacheAccepted(b)
        \/ IngressDies(b)
  <2>1. UNCHANGED storeVars
    BY <1>3 DEF PublishAllocateJob, PublishFails, CacheRejected, CacheAccepted, IngressDies
  <2> QED
    BY <2>1, StoreUnchanged
<1> QED
  BY <1>1, <1>2, <1>3 DEF IngressNext

\* Every step keeps sold seats, decided bookings and charges.
LEMMA NextKeeps ==
  ASSUME Typed, [Next]_vars
  PROVE  StoreKept
<1>1. ASSUME NEW b \in Bookings, IngressNext(b) PROVE StoreKept
  BY <1>1, IngressKeeps
<1>2. ASSUME NEW w \in Workers, WorkerStep(w) PROVE StoreKept
  BY <1>2, WorkerStepKeeps
<1>3. ASSUME NEW s \in Seats, Expire(s) PROVE StoreKept
  BY <1>3 DEF Expire, HoldExpires, StoreKept
<1>4. CASE Sweep
  <2>1. Vacate(ExpiredHolds) /\ payment' = payment
    BY <1>4 DEF Sweep, sweep_expired_holds
  <2>2. \A s \in Seats : seatStatus[s] = "CONFIRMED" =>
          seatStatus'[s] = "CONFIRMED" /\ seatBooking'[s] = seatBooking[s]
    BY <2>1, VacateKeeps DEF ExpiredHolds
  <2>3. bookingSeat' = bookingSeat
    BY <1>4 DEF Sweep, sweep_expired_holds, ExpireIfPending
  <2>4. \A b \in Bookings : bookingStatus'[b] \in {bookingStatus[b], "EXPIRED"}
          /\ (bookingStatus[b] # "PENDING" => bookingStatus'[b] = bookingStatus[b])
    BY <1>4 DEF Sweep, sweep_expired_holds, ExpireIfPending, Typed, TypeOK, StoreTypeOK
  <2> QED
    BY <2>1, <2>2, <2>3, <2>4 DEF StoreKept, Terminal
<1>5. ASSUME UNCHANGED storeVars PROVE StoreKept
  BY <1>5, StoreUnchanged
<1>6. ASSUME NEW b \in Bookings, BrokerGivesUp(b) PROVE UNCHANGED storeVars
  BY <1>6 DEF BrokerGivesUp
<1>7. ASSUME NEW w \in Workers, NEW b \in Bookings, Deliver(w, b) \/ DeliverCallback(w, b)
      PROVE UNCHANGED storeVars
  BY <1>7 DEF Deliver, DeliverCallback
<1>8. ASSUME NEW w \in Workers, Throws(w) \/ Dies(w) PROVE UNCHANGED storeVars
  BY <1>8 DEF Throws, Dies
<1>9. UNCHANGED vars => UNCHANGED storeVars
  BY DEF vars
<1> QED
  BY <1>1, <1>2, <1>3, <1>4, <1>5, <1>6, <1>7, <1>8, <1>9 DEF Next

-----------------------------------------------------------------------------
(* Safety. *)

\* A worker is at confirm_booking only after a charge that succeeded.
PaidWorkers ==
  \A w \in Workers : pc[w] \in {"confirm", "seal"} => payment[job[w]] = "succeeded"

Safe == Typed /\ PaidWorkers /\ ConfirmedHasSeat /\ PaidBeforeConfirmed

\* A worker that is at confirm_booking after a step was already running, for the
\* same booking, and that booking's charge has succeeded.
ConfirmsPaid ==
  \A v \in Workers : pc'[v] \in {"confirm", "seal"} =>
    /\ job'[v] = job[v]
    /\ pc[v] # "idle"
    /\ payment[job[v]] = "succeeded" \/ payment'[job[v]] = "succeeded"

\* One statement of a worker brings nobody to confirm_booking unpaid.
LEMMA WorkerStepPays ==
  ASSUME Typed, PaidWorkers, NEW w \in Workers, WorkerStep(w)
  PROVE  ConfirmsPaid
<1> USE DEF Typed, TypeOK, WorkerTypeOK, PaidWorkers, ConfirmsPaid
<1>1. CASE AlreadyTerminal(w) \/ ReleaseForRetry(w) \/ CacheAndRespond(w)
  <2>1. Finish(w)
    BY <1>1 DEF AlreadyTerminal, ReleaseForRetry, CacheAndRespond, Respond
  <2> QED
    BY <2>1 DEF Finish
<1>2. CASE LookupPayment(w)
  BY <1>2 DEF LookupPayment, Step
<1>3. CASE InsertPayment(w)
  <2>1. job[w] \in Bookings
    BY <1>3 DEF InsertPayment, BusyHasJob
  <2> QED
    BY <1>3, <2>1 DEF InsertPayment, Step, StoreTypeOK
<1>4. CASE Confirm(w) \/ ConfirmReads(w)
  BY <1>4 DEF Confirm, ConfirmReads, Step
<1>5. CASE SeesPending(w) \/ ReuseHold(w) \/ NoHoldYet(w) \/ AllocateSeat(w) \/ SoldOut(w)
        \/ PaymentUnavailable(w)
  BY <1>5 DEF SeesPending, ReuseHold, NoHoldYet, AllocateSeat, SoldOut, PaymentUnavailable, Step
<1>6. CASE ConfirmSeatOnly(w) \/ ConfirmNothing(w) \/ Refund(w) \/ InsertDlqJob(w)
        \/ Unseat(w) \/ FailBooking(w)
  BY <1>6 DEF ConfirmSeatOnly, ConfirmNothing, Refund, InsertDlqJob, Unseat, FailBooking, Step
<1> QED
  BY <1>1, <1>2, <1>3, <1>4, <1>5, <1>6 DEF WorkerStep

\* No step does.
LEMMA NextPays ==
  ASSUME Typed, PaidWorkers, [Next]_vars
  PROVE  ConfirmsPaid
<1> USE DEF Typed, TypeOK, WorkerTypeOK, PaidWorkers, ConfirmsPaid
<1>1. ASSUME NEW b \in Bookings, IngressNext(b) \/ BrokerGivesUp(b) PROVE UNCHANGED workerVars
  BY <1>1
  DEF IngressNext, CreateBooking, PublishAllocateJob, PublishFails, MarkUnpublished,
      CacheRejected, CacheAccepted, Ingress, IngressDies, BrokerGivesUp
<1>2. ASSUME NEW w \in Workers, WorkerStep(w) PROVE ConfirmsPaid
  BY <1>2, WorkerStepPays
<1>3. ASSUME NEW w \in Workers, NEW b \in Bookings, Deliver(w, b) \/ DeliverCallback(w, b)
      PROVE  ConfirmsPaid
  BY <1>3 DEF Deliver, DeliverCallback, BusyHasJob
<1>4. ASSUME NEW w \in Workers, Throws(w) \/ Dies(w) PROVE ConfirmsPaid
  <2>1. Finish(w)
    BY <1>4 DEF Throws, Dies, Respond
  <2> QED
    BY <2>1 DEF Finish
<1>5. ASSUME NEW s \in Seats, Expire(s) PROVE UNCHANGED workerVars
  BY <1>5 DEF Expire
<1>6. Sweep => UNCHANGED workerVars
  BY DEF Sweep
<1>7. UNCHANGED vars => UNCHANGED workerVars
  BY DEF vars
<1>8. UNCHANGED workerVars => ConfirmsPaid
  BY DEF workerVars
<1> QED
  BY <1>1, <1>2, <1>3, <1>4, <1>5, <1>6, <1>7, <1>8 DEF Next

\* A CONFIRMED booking keeps its seat, and one that becomes CONFIRMED gets one.
LEMMA SeatStep ==
  ASSUME Typed, ConfirmedHasSeat, [Next]_vars
  PROVE  ConfirmedHasSeat'
<1>1. StoreKept
  BY NextKeeps
<1> SUFFICES ASSUME NEW b \in Bookings, bookingStatus'[b] = "CONFIRMED"
             PROVE  /\ bookingSeat'[b] \in Seats
                    /\ seatStatus'[bookingSeat'[b]] = "CONFIRMED"
                    /\ seatBooking'[bookingSeat'[b]] = b
  BY DEF ConfirmedHasSeat
<1>2. CASE bookingStatus[b] = "CONFIRMED"
  BY <1>1, <1>2 DEF ConfirmedHasSeat, StoreKept, Terminal
<1>3. CASE bookingStatus[b] # "CONFIRMED"
  <2>1. PICK w \in Workers : Confirm(w) /\ job[w] = b
    BY <1>1, <1>3 DEF StoreKept
  <2> QED
    BY <2>1, ConfirmEffect DEF Typed, TypeOK, StoreTypeOK
<1> QED
  BY <1>2, <1>3

\* Safe is inductive.
LEMMA SafeStep == Safe /\ [Next]_vars => Safe'
<1> SUFFICES ASSUME Safe, [Next]_vars PROVE Safe'
  OBVIOUS
<1>1. Typed'
  BY TypedStep DEF Safe
<1>2. StoreKept
  BY NextKeeps DEF Safe
<1>3. PaidWorkers'
  <2>1. ConfirmsPaid
    BY NextPays DEF Safe
  <2>2. \A v \in Workers : pc[v] # "idle" => job[v] \in Bookings
    BY DEF Safe, Typed, BusyHasJob
  <2> QED
    BY <1>2, <2>1, <2>2 DEF ConfirmsPaid, StoreKept, PaidWorkers
<1>4. PaidBeforeConfirmed'
  <2> SUFFICES ASSUME NEW b \in Bookings, bookingStatus'[b] = "CONFIRMED"
               PROVE  payment'[b] = "succeeded"
    BY DEF PaidBeforeConfirmed
  <2>1. CASE bookingStatus[b] = "CONFIRMED"
    BY <1>2, <2>1 DEF Safe, PaidBeforeConfirmed, StoreKept
  <2>2. CASE bookingStatus[b] # "CONFIRMED"
    <3>1. PICK w \in Workers : Confirm(w) /\ job[w] = b
      BY <1>2, <2>2 DEF StoreKept
    <3>2. pc[w] = "seal"
      BY <3>1 DEF Confirm
    <3> QED
      BY <1>2, <3>1, <3>2 DEF Safe, PaidWorkers, StoreKept
  <2> QED
    BY <2>1, <2>2
<1>5. ConfirmedHasSeat'
  BY SeatStep DEF Safe
<1> QED
  BY <1>1, <1>3, <1>4, <1>5 DEF Safe

\* Safe holds initially: nothing is sold and nobody runs.
LEMMA SafeInit == Init => Safe
<1>1. Init => Typed
  BY InitTyped
<1> QED
  BY <1>1 DEF Init, StoreInit, Safe, PaidWorkers, ConfirmedHasSeat, PaidBeforeConfirmed

\* A CONFIRMED booking has its own CONFIRMED seat, and rests on a successful
\* charge, in every reachable state.
THEOREM Safety == Spec => [](ConfirmedHasSeat /\ PaidBeforeConfirmed)
<1> QED
  BY SafeInit, SafeStep, PTL DEF Spec, Safe

\* In particular no customer holds a seat that was not paid for.
COROLLARY PaidFirst == Spec => []PaidBeforeConfirmed
<1> QED
  BY Safety, PTL

\* No step decides a booking again once it is CONFIRMED, FAILED or EXPIRED.
THEOREM DecisionsAreFinal == Spec => TerminalIsFinal
<1>1. Typed /\ [Next]_vars =>
        [\A b \in Bookings : bookingStatus[b] \in Terminal =>
           UNCHANGED <<bookingStatus[b], bookingSeat[b]>>]_vars
  <2>1. Typed /\ [Next]_vars => StoreKept
    BY NextKeeps
  <2> QED
    BY <2>1 DEF StoreKept
<1> QED
  BY <1>1, InitTyped, TypedStep, PTL DEF Spec, TerminalIsFinal

\* No step releases, reserves or gives away a seat that is sold.
THEOREM SalesAreFinal == Spec => SoldSeatIsFinal
<1>1. Typed /\ [Next]_vars =>
        [\A s \in Seats : seatStatus[s] = "CONFIRMED" =>
           UNCHANGED <<seatStatus[s], seatBooking[s]>>]_vars
  <2>1. Typed /\ [Next]_vars => StoreKept
    BY NextKeeps
  <2> QED
    BY <2>1 DEF StoreKept
<1> QED
  BY <1>1, InitTyped, TypedStep, PTL DEF Spec, SoldSeatIsFinal

-----------------------------------------------------------------------------
(* Live holds. *)

\* What a step may do to the live holds of a booking: keep them with it, or have
\* a worker that serves it give them back.
HoldsKept ==
  \A b \in Bookings : \A s \in LiveHolds(b) :
    \/ seatBooking'[s] = b
    \/ /\ seatStatus'[s] = "AVAILABLE"
       /\ \E w \in Workers : job[w] = b /\ pc[w] \in {"release", "fail"} /\ pc'[w] # pc[w]

\* Freeing some of a booking's own holds keeps everybody else's.
LEMMA OwnHoldsFreed ==
  ASSUME Typed, NEW w \in Workers, NEW S \in SUBSET HeldBy(job[w]), Vacate(S),
         pc[w] \in {"release", "fail"}, pc'[w] # pc[w]
  PROVE  HoldsKept
<1> SUFFICES ASSUME NEW b \in Bookings, NEW s \in LiveHolds(b)
             PROVE  \/ seatBooking'[s] = b
                    \/ /\ seatStatus'[s] = "AVAILABLE"
                       /\ \E v \in Workers : /\ job[v] = b /\ pc[v] \in {"release", "fail"}
                                             /\ pc'[v] # pc[v]
  BY DEF HoldsKept
<1>1. s \in Seats /\ seatBooking[s] = b
  BY DEF LiveHolds, HeldBy
<1>2. CASE s \in S
  <2>1. seatStatus'[s] = "AVAILABLE" /\ job[w] = b
    BY <1>1, <1>2 DEF Vacate, HeldBy
  <2> QED
    BY <2>1
<1>3. CASE s \notin S
  BY <1>1, <1>3 DEF Vacate
<1> QED
  BY <1>2, <1>3

\* One statement of a worker keeps the live holds of all bookings but its own.
LEMMA WorkerStepKeepsHolds ==
  ASSUME Typed, NEW w \in Workers, WorkerStep(w)
  PROVE  HoldsKept
<1> USE DEF Typed, TypeOK, StoreTypeOK
<1>1. ASSUME UNCHANGED seatBooking PROVE HoldsKept
  BY <1>1 DEF HoldsKept, LiveHolds, HeldBy
<1>2. CASE AllocateSeat(w)
  <2>1. PICK t \in Free : Reserve(t, job[w])
    BY <1>2 DEF AllocateSeat
  <2> QED
    BY <2>1 DEF HoldsKept, LiveHolds, HeldBy, Free, Reserve
<1>3. CASE ReleaseForRetry(w)
  <2>1. pc[w] = "release" /\ pc'[w] = "idle" /\ Vacate(HeldBy(job[w]))
    BY <1>3 DEF ReleaseForRetry, release_hold_retryable, Respond, Finish, WorkerTypeOK
  <2> QED
    BY <2>1, OwnHoldsFreed
<1>4. CASE FailBooking(w)
  <2>1. pc[w] = "fail" /\ pc'[w] = "cache" /\ Vacate(rows[w] \cap HeldBy(job[w]))
    BY <1>4 DEF FailBooking, Step, WorkerTypeOK
  <2>2. rows[w] \cap HeldBy(job[w]) \in SUBSET HeldBy(job[w])
    OBVIOUS
  <2> QED
    BY <2>1, <2>2, OwnHoldsFreed
<1>5. CASE Confirm(w) \/ ConfirmSeatOnly(w) \/ InsertPayment(w)
  BY <1>1, <1>5 DEF Confirm, ConfirmSeatOnly, SealSeat, InsertPayment, seatVars
<1>6. CASE SeesPending(w) \/ AlreadyTerminal(w) \/ ReuseHold(w) \/ NoHoldYet(w)
        \/ SoldOut(w) \/ LookupPayment(w) \/ PaymentUnavailable(w) \/ ConfirmReads(w)
        \/ ConfirmNothing(w) \/ Refund(w) \/ InsertDlqJob(w) \/ Unseat(w) \/ CacheAndRespond(w)
  <2>1. UNCHANGED storeVars
    BY <1>6
    DEF SeesPending, AlreadyTerminal, ReuseHold, NoHoldYet, SoldOut, GoTerminal,
        LookupPayment, PaymentUnavailable, ConfirmReads, ConfirmNothing, Refund,
        InsertDlqJob, Unseat, CacheAndRespond
  <2> QED
    BY <1>1, <2>1 DEF storeVars
<1> QED
  BY <1>2, <1>3, <1>4, <1>5, <1>6 DEF WorkerStep

\* Nor does any other step take a live hold from its booking: the sweeper leaves
\* those alone that are live in its own snapshot.
LEMMA NextKeepsHolds ==
  ASSUME Typed, [Next]_vars
  PROVE  HoldsKept
<1>1. ASSUME UNCHANGED seatBooking PROVE HoldsKept
  BY <1>1 DEF HoldsKept, LiveHolds, HeldBy
<1>2. ASSUME NEW b \in Bookings, IngressNext(b) \/ BrokerGivesUp(b) PROVE UNCHANGED seatBooking
  BY <1>2
  DEF IngressNext, CreateBooking, PublishAllocateJob, PublishFails, MarkUnpublished,
      CacheRejected, CacheAccepted, IngressDies, BrokerGivesUp, storeVars, seatVars
<1>3. ASSUME NEW w \in Workers, NEW b \in Bookings, Deliver(w, b) \/ DeliverCallback(w, b)
      PROVE  UNCHANGED seatBooking
  BY <1>3 DEF Deliver, DeliverCallback, storeVars
<1>4. ASSUME NEW w \in Workers, WorkerStep(w) PROVE HoldsKept
  BY <1>4, WorkerStepKeepsHolds
<1>5. ASSUME NEW w \in Workers, Throws(w) \/ Dies(w) PROVE UNCHANGED seatBooking
  BY <1>5 DEF Throws, Dies, storeVars
<1>6. ASSUME NEW s \in Seats, Expire(s) PROVE UNCHANGED seatBooking
  BY <1>6 DEF Expire, HoldExpires
<1>7. CASE Sweep
  <2>1. Vacate(ExpiredHolds)
    BY <1>7 DEF Sweep, sweep_expired_holds
  <2> QED
    BY <2>1 DEF HoldsKept, LiveHolds, HeldBy, ExpiredHolds, Vacate
<1>8. UNCHANGED vars => UNCHANGED seatBooking
  BY DEF vars, storeVars
<1> QED
  BY <1>1, <1>2, <1>3, <1>4, <1>5, <1>6, <1>7, <1>8 DEF Next

\* A hold is not taken from its booking before held_until, except by a worker that
\* serves this booking: neither the sweeper nor another booking's worker does.
THEOREM HoldsAreRespected == Spec => LiveHoldIsKept
<1>1. Typed /\ [Next]_vars =>
        [\A b \in Bookings : \A s \in LiveHolds(b) :
           \/ seatBooking'[s] = b
           \/ /\ seatStatus'[s] = "AVAILABLE"
              /\ \E w \in Workers : job[w] = b /\ pc[w] \in {"release", "fail"} /\ pc'[w] # pc[w]
         ]_vars
  BY NextKeepsHolds DEF HoldsKept
<1> QED
  BY <1>1, InitTyped, TypedStep, PTL DEF Spec, LiveHoldIsKept

-----------------------------------------------------------------------------
(* What is cached is true. *)

\* Everybody who names a booking names one that has a row.
Known ==
  /\ \A b \in Bookings : ingress[b] # "idle" => bookingStatus[b] # "ABSENT"
  /\ \A b \in Bookings : phase[b] # "unpublished" => bookingStatus[b] # "ABSENT"
  /\ \A w \in Workers : pc[w] # "idle" => bookingStatus[job[w]] # "ABSENT"
  /\ \A b \in dlq : bookingStatus[b] # "ABSENT"

\* The body says EXPIRED, or what its booking's row says.
Failing(w) == pc[w] = "cache" /\ body[w] \notin {"CONFIRMED", "EXPIRED"}

Honest ==
  /\ \A w \in Workers : body[w] = "CONFIRMED" =>
       pc[w] = "cache" /\ bookingStatus[job[w]] = "CONFIRMED"
  /\ \A w \in Workers : Failing(w) => bookingStatus[job[w]] \in Terminal
  /\ \A w \in Workers : body[w] = "EXPIRED" => job[w] \in refunded
  /\ \A w \in Workers : pc[w] = "idle" => body[w] = "none"

Serves(w, b) == pc[w] # "idle" /\ job[w] = b

\* What those who serve b are about to cache is so.
HonestFor(b) ==
  \A w \in Workers : Serves(w, b) =>
    /\ body[w] = "CONFIRMED" => bookingStatus[b] = "CONFIRMED"
    /\ Failing(w) => bookingStatus[b] \in Terminal
    /\ body[w] = "EXPIRED" => b \in refunded

\* If the booking of w is CONFIRMED it may be w that confirmed it.
Sold(w) == pc[w] \in {"confirm", "refund"} \/ (pc[w] = "cache" /\ ~Failing(w))

\* One invocation serves b, next to callbacks that have not inserted their row:
\* until it is over nobody has cached FAILED, and only that one sells b a seat.
Lone(b) ==
  /\ ingress[b] \in {"idle", "created"} => phase[b] = "unpublished"
  /\ phase[b] \in {"unpublished", "queued"} =>
       /\ \A w \in Workers : ~Serves(w, b)
       /\ bookingStatus[b] # "CONFIRMED"
       /\ cached[b] # "FAILED"
  /\ \A v, w \in Workers :
       Serves(v, b) /\ Serves(w, b) /\ pc[v] # "dlq" /\ pc[w] # "dlq" => v = w
  /\ \A w \in Workers : Serves(w, b) /\ pc[w] # "dlq" =>
       /\ ~InCallback(w)
       /\ cached[b] # "FAILED"
       /\ bookingStatus[b] = "CONFIRMED" => Sold(w)

Alone == \A b \in Bookings : ~Reinvoked(b) => Lone(b)

Truthful == Safe /\ Known /\ Honest /\ Alone /\ CachedOutcomeIsReal

\* A row that is there stays there.
RowsStay == \A b \in Bookings : bookingStatus[b] # "ABSENT" => bookingStatus'[b] # "ABSENT"

\* No step deletes a booking.
LEMMA NextRowsStay ==
  ASSUME Typed, [Next]_vars
  PROVE  RowsStay
<1> USE DEF Typed, TypeOK, StoreTypeOK
<1>1. ASSUME UNCHANGED bookingStatus PROVE RowsStay
  BY <1>1 DEF RowsStay
<1>2. ASSUME NEW b \in Bookings, FailIfPending(b) PROVE RowsStay
  BY <1>2 DEF FailIfPending, RowsStay
<1>3. ASSUME NEW b \in Bookings, IngressNext(b) PROVE RowsStay
  <2>1. CASE CreateBooking(b)
    BY <2>1 DEF CreateBooking, InsertBooking, RowsStay
  <2>2. CASE MarkUnpublished(b)
    BY <1>1, <1>2, <2>2 DEF MarkUnpublished, bookingVars
  <2>3. CASE PublishAllocateJob(b) \/ PublishFails(b) \/ CacheRejected(b) \/ CacheAccepted(b)
          \/ IngressDies(b)
    BY <1>1, <2>3
    DEF PublishAllocateJob, PublishFails, CacheRejected, CacheAccepted, IngressDies,
        storeVars, bookingVars
  <2> QED
    BY <1>3, <2>1, <2>2, <2>3 DEF IngressNext
<1>4. ASSUME NEW w \in Workers, WorkerStep(w) PROVE RowsStay
  <2>1. CASE Confirm(w)
    BY <2>1, ConfirmEffect DEF RowsStay
  <2>2. CASE FailBooking(w)
    BY <1>2, <2>2 DEF FailBooking, Step, BusyHasJob
  <2>3. CASE AllocateSeat(w) \/ InsertPayment(w) \/ ConfirmSeatOnly(w) \/ ReleaseForRetry(w)
    BY <1>1, <2>3
    DEF AllocateSeat, InsertPayment, ConfirmSeatOnly, ReleaseForRetry,
        release_hold_retryable, bookingVars
  <2>4. CASE SeesPending(w) \/ AlreadyTerminal(w) \/ ReuseHold(w) \/ NoHoldYet(w)
          \/ SoldOut(w) \/ LookupPayment(w) \/ PaymentUnavailable(w) \/ ConfirmReads(w)
          \/ ConfirmNothing(w) \/ Refund(w) \/ InsertDlqJob(w) \/ Unseat(w) \/ CacheAndRespond(w)
    BY <1>1, <2>4
    DEF SeesPending, AlreadyTerminal, ReuseHold, NoHoldYet, SoldOut, GoTerminal,
        LookupPayment, PaymentUnavailable, ConfirmReads, ConfirmNothing, Refund,
        InsertDlqJob, Unseat, CacheAndRespond, storeVars, bookingVars
  <2> QED
    BY <1>4, <2>1, <2>2, <2>3, <2>4 DEF WorkerStep
<1>5. ASSUME NEW s \in Seats, Expire(s) PROVE UNCHANGED bookingStatus
  BY <1>5 DEF Expire, HoldExpires
<1>6. ASSUME NEW b \in Bookings, BrokerGivesUp(b) PROVE UNCHANGED bookingStatus
  BY <1>6 DEF BrokerGivesUp, storeVars, bookingVars
<1>7. ASSUME NEW w \in Workers, NEW b \in Bookings, Deliver(w, b) \/ DeliverCallback(w, b)
      PROVE  UNCHANGED bookingStatus
  BY <1>7 DEF Deliver, DeliverCallback, storeVars, bookingVars
<1>8. ASSUME NEW w \in Workers, Throws(w) \/ Dies(w) PROVE UNCHANGED bookingStatus
  BY <1>8 DEF Throws, Dies, storeVars, bookingVars
<1>9. Sweep => RowsStay
  BY DEF Sweep, sweep_expired_holds, ExpireIfPending, RowsStay
<1>10. UNCHANGED vars => UNCHANGED bookingStatus
  BY DEF vars, storeVars, bookingVars
<1> QED
  BY <1>1, <1>3, <1>4, <1>5, <1>6, <1>7, <1>8, <1>9, <1>10 DEF Next

\* Who is named after a step was named before it, or has a row.
NamesOld ==
  /\ \A b \in Bookings : ingress'[b] # "idle" =>
       ingress[b] # "idle" \/ bookingStatus'[b] # "ABSENT"
  /\ \A b \in Bookings : phase'[b] # "unpublished" =>
       phase[b] # "unpublished" \/ bookingStatus[b] # "ABSENT"
  /\ \A v \in Workers : pc'[v] # "idle" =>
       \/ pc[v] # "idle" /\ job'[v] = job[v]
       \/ job'[v] \in Bookings /\ bookingStatus[job'[v]] # "ABSENT"
  /\ \A b \in dlq' : b \in dlq \/ bookingStatus[b] # "ABSENT"

\* The broker only moves messages that were published.
LEMMA AnswersMoveOld ==
  ASSUME Typed, NEW w \in Workers, pc[w] # "idle", NEW code \in {200, 489, 500},
         Respond(w, code)
  PROVE  /\ \A b \in Bookings : phase'[b] # "unpublished" => phase[b] # "unpublished"
         /\ \A v \in Workers : pc'[v] # "idle" => pc[v] # "idle" /\ job'[v] = job[v]
<1> USE DEF Typed, TypeOK, TransportTypeOK, WorkerTypeOK
<1>1. job[w] \in Bookings
  BY DEF BusyHasJob
<1>2. CASE InCallback(w)
  BY <1>1, <1>2 DEF Respond, AnswerCallback, Move, transportVars, Finish
<1>3. CASE ~InCallback(w)
  <2>1. Answer(job[w], retried[w], code) /\ Finish(w)
    BY <1>3 DEF Respond
  <2>2. CASE ~(phase[job[w]] = "sent" /\ attempt[job[w]] = retried[w])
    <3>1. UNCHANGED transportVars
      BY <2>1, <2>2 DEF Answer
    <3> QED
      BY <2>1, <3>1 DEF transportVars, Finish
  <2>3. CASE phase[job[w]] = "sent" /\ attempt[job[w]] = retried[w]
    <3>1. \A b \in Bookings : b # job[w] => phase'[b] = phase[b]
      <4>1. CASE code = 200
        BY <1>1, <2>1, <2>3, <4>1 DEF Answer, Move
      <4>2. CASE code = 489
        BY <1>1, <2>1, <2>3, <4>2 DEF Answer, Move
      <4>3. CASE code = 500
        BY <1>1, <2>1, <2>3, <4>3 DEF Answer, RetryOrGiveUp
      <4> QED
        BY <4>1, <4>2, <4>3
    <3> QED
      BY <2>1, <2>3, <3>1 DEF Finish
  <2> QED
    BY <2>2, <2>3
<1> QED
  BY <1>2, <1>3

\* No step names a booking that has no row.
LEMMA NextNamesOld ==
  ASSUME Typed, Known, [Next]_vars
  PROVE  NamesOld
<1> USE DEF Typed, TypeOK, TransportTypeOK, WorkerTypeOK, IngressTypeOK, auditVars, ingressVars,
            workerVars, transportVars
<1>1. ASSUME NEW b \in Bookings, IngressNext(b) PROVE NamesOld
  <2>1. CASE CreateBooking(b)
    BY <2>1 DEF CreateBooking, Ingress, InsertBooking, StoreTypeOK, NamesOld
  <2>2. CASE PublishAllocateJob(b) \/ PublishFails(b)
    <3>1. bookingStatus[b] # "ABSENT" /\ ingress[b] # "idle"
      BY <2>2 DEF PublishAllocateJob, PublishFails, Ingress, Known
    <3>2. \A c \in Bookings : c # b => phase'[c] = phase[c] /\ ingress'[c] = ingress[c]
      BY <2>2 DEF PublishAllocateJob, PublishFails, Ingress, Enqueue
    <3>3. UNCHANGED <<pc, job, dlq>>
      BY <2>2 DEF PublishAllocateJob, PublishFails, Ingress
    <3> QED
      BY <3>1, <3>2, <3>3 DEF NamesOld
  <2>3. CASE MarkUnpublished(b) \/ CacheRejected(b) \/ CacheAccepted(b) \/ IngressDies(b)
    BY <2>3
    DEF MarkUnpublished, CacheRejected, CacheAccepted, IngressDies, Ingress, NamesOld
  <2> QED
    BY <1>1, <2>1, <2>2, <2>3 DEF IngressNext
<1>2. ASSUME NEW w \in Workers, WorkerStep(w) PROVE NamesOld
  <2>1. CASE AlreadyTerminal(w) \/ ReleaseForRetry(w) \/ CacheAndRespond(w)
    <3>1. pc[w] # "idle" /\ (\E code \in {200, 489, 500} : Respond(w, code))
          /\ UNCHANGED <<ingress, dlq>>
      BY <2>1 DEF AlreadyTerminal, ReleaseForRetry, CacheAndRespond
    <3> QED
      BY <3>1, AnswersMoveOld DEF NamesOld
  <2>2. CASE SeesPending(w) \/ ReuseHold(w) \/ NoHoldYet(w) \/ AllocateSeat(w) \/ SoldOut(w)
          \/ LookupPayment(w) \/ InsertPayment(w) \/ PaymentUnavailable(w) \/ ConfirmReads(w)
    <3>1. UNCHANGED <<phase, ingress, dlq, job>>
      BY <2>2
      DEF SeesPending, ReuseHold, NoHoldYet, AllocateSeat, SoldOut, GoTerminal, LookupPayment,
          InsertPayment, PaymentUnavailable, ConfirmReads, Step
    <3>2. \A v \in Workers : pc'[v] # "idle" => pc[v] # "idle"
      BY <2>2
      DEF SeesPending, ReuseHold, NoHoldYet, AllocateSeat, SoldOut, LookupPayment,
          InsertPayment, PaymentUnavailable, ConfirmReads, Step
    <3> QED
      BY <3>1, <3>2 DEF NamesOld
  <2>3. CASE Confirm(w) \/ ConfirmSeatOnly(w) \/ ConfirmNothing(w) \/ Refund(w) \/ Unseat(w)
          \/ FailBooking(w)
    BY <2>3
    DEF Confirm, ConfirmSeatOnly, ConfirmNothing, Refund, Unseat, FailBooking, Step, NamesOld
  <2>4. CASE InsertDlqJob(w)
    <3>1. job[w] \in Bookings /\ bookingStatus[job[w]] # "ABSENT"
      BY <2>4 DEF InsertDlqJob, Step, BusyHasJob, Known
    <3> QED
      BY <2>4, <3>1 DEF InsertDlqJob, Step, NamesOld
  <2> QED
    BY <1>2, <2>1, <2>2, <2>3, <2>4 DEF WorkerStep
<1>3. ASSUME NEW w \in Workers, NEW b \in Bookings, Deliver(w, b) \/ DeliverCallback(w, b)
      PROVE  NamesOld
  <2>1. phase[b] # "unpublished" /\ bookingStatus[b] # "ABSENT"
    BY <1>3 DEF Deliver, DeliverCallback, Move, Known
  <2> QED
    BY <1>3, <2>1 DEF Deliver, DeliverCallback, Move, NamesOld
<1>4. ASSUME NEW w \in Workers, Throws(w) PROVE NamesOld
  <2>1. pc[w] # "idle" /\ (\E code \in {200, 489, 500} : Respond(w, code))
        /\ UNCHANGED <<ingress, dlq>>
    BY <1>4 DEF Throws
  <2> QED
    BY <2>1, AnswersMoveOld DEF NamesOld
<1>5. ASSUME NEW w \in Workers, Dies(w) PROVE NamesOld
  BY <1>5 DEF Dies, Finish, NamesOld
<1>6. ASSUME NEW b \in Bookings, BrokerGivesUp(b) PROVE NamesOld
  BY <1>6 DEF BrokerGivesUp, GiveUpWaiting, RetryOrGiveUp, Move, NamesOld
<1>7. ASSUME NEW s \in Seats, Expire(s) PROVE NamesOld
  BY <1>7 DEF Expire, NamesOld
<1>8. Sweep => NamesOld
  BY DEF Sweep, NamesOld
<1>9. UNCHANGED vars => NamesOld
  BY DEF vars, NamesOld
<1> QED
  BY <1>1, <1>2, <1>3, <1>4, <1>5, <1>6, <1>7, <1>8, <1>9 DEF Next

\* Nobody carries a CONFIRMED body but to cache it at once.
BodyIsFresh == \A w \in Workers : body[w] = "CONFIRMED" => pc[w] = "cache"

\* What a worker is about to cache after a step is true then (or its booking has
\* no row), or it was about to cache it before.
HonestSteps ==
  \A v \in Workers :
    /\ body'[v] = "CONFIRMED" =>
         \/ pc'[v] = "cache" /\ bookingStatus'[job'[v]] = "CONFIRMED"
         \/ UNCHANGED <<pc[v], job[v], body[v]>>
    /\ Failing(v)' =>
         \/ bookingStatus'[job'[v]] \in Terminal \cup {"ABSENT"}
         \/ UNCHANGED <<pc[v], job[v], body[v]>>
    /\ body'[v] = "EXPIRED" =>
         \/ job'[v] \in refunded'
         \/ body[v] = "EXPIRED" /\ (job'[v] = job[v] \/ pc[v] = "idle")
    /\ pc'[v] = "idle" => body'[v] = "none" \/ UNCHANGED <<pc[v], body[v]>>

\* What a step does to a cached body.
CachesFor(b) ==
  cached'[b] \in Terminal =>
    \/ cached'[b] = cached[b]
    \/ \E w \in Workers : /\ pc[w] = "cache" /\ pc'[w] = "idle" /\ job[w] = b
                          /\ cached'[b] = StatusOf(body[w])

CachesTruth == \A b \in Bookings : CachesFor(b)

\* One statement of a worker has it about to cache only what is so.
LEMMA WorkerStepHonest ==
  ASSUME Typed, BodyIsFresh, NEW w \in Workers, WorkerStep(w)
  PROVE  HonestSteps /\ CachesTruth
<1> USE DEF Typed, TypeOK, WorkerTypeOK, Failing
<1>0. /\ pc[w] # "cache" => body[w] # "CONFIRMED"
      /\ pc[w] # "idle" => job[w] \in Bookings
  BY DEF BodyIsFresh, BusyHasJob
<1>1. CASE AlreadyTerminal(w) \/ ReleaseForRetry(w)
  <2>1. Finish(w) /\ cached' = cached
    BY <1>1 DEF AlreadyTerminal, ReleaseForRetry, Respond, ingressVars
  <2> QED
    BY <2>1 DEF Finish, HonestSteps, CachesTruth, CachesFor
<1>2. CASE CacheAndRespond(w)
  <2>1. Finish(w) /\ pc[w] = "cache" /\ job[w] \in Bookings
        /\ cached' = [cached EXCEPT ![job[w]] = StatusOf(body[w])]
    BY <1>0, <1>2 DEF CacheAndRespond, Respond
  <2>2. HonestSteps
    BY <2>1 DEF Finish, HonestSteps
  <2>3. CachesTruth
    BY <2>1 DEF CachesTruth, CachesFor, IngressTypeOK, Finish
  <2> QED
    BY <2>2, <2>3
<1>3. CASE SeesPending(w) \/ ReuseHold(w) \/ NoHoldYet(w) \/ AllocateSeat(w) \/ InsertPayment(w)
        \/ ConfirmReads(w) \/ ConfirmSeatOnly(w) \/ ConfirmNothing(w) \/ InsertDlqJob(w)
        \/ Unseat(w)
  <2>1. UNCHANGED <<job, body, cached>> /\ pc[w] # "cache"
        /\ \E to \in Steps \ {"cache", "idle"} : pc' = [pc EXCEPT ![w] = to]
    BY <1>3
    DEF SeesPending, ReuseHold, NoHoldYet, AllocateSeat, InsertPayment, ConfirmReads,
        ConfirmSeatOnly, ConfirmNothing, InsertDlqJob, Unseat, Step, Forget, Steps, ingressVars
  <2> QED
    BY <1>0, <2>1 DEF HonestSteps, CachesTruth, CachesFor
<1>4. CASE SoldOut(w) \/ LookupPayment(w) \/ PaymentUnavailable(w)
  <2>1. UNCHANGED <<job, cached>> /\ pc[w] # "cache"
        /\ \E to \in Steps \ {"cache", "idle"} : pc' = [pc EXCEPT ![w] = to]
    BY <1>4
    DEF SoldOut, LookupPayment, PaymentUnavailable, Step, Steps, ingressVars
  <2>2. \/ body' = body
        \/ \E what \in Bodies \ {"CONFIRMED", "EXPIRED"} : body' = [body EXCEPT ![w] = what]
    BY <1>4 DEF SoldOut, LookupPayment, PaymentUnavailable, GoTerminal, Bodies
  <2> QED
    BY <1>0, <2>1, <2>2 DEF HonestSteps, CachesTruth, CachesFor
<1>5. CASE Confirm(w)
  <2>1. job[w] \in Bookings /\ bookingStatus' = [bookingStatus EXCEPT ![job[w]] = "CONFIRMED"]
    BY <1>5, ConfirmEffect
  <2>2. bookingStatus'[job[w]] = "CONFIRMED"
    BY <2>1 DEF StoreTypeOK
  <2>3. UNCHANGED <<job, cached>> /\ pc[w] = "seal"
    BY <1>5 DEF Confirm, Step, ingressVars
  <2>4. \/ pc' = [pc EXCEPT ![w] = "cache"] /\ body' = [body EXCEPT ![w] = "CONFIRMED"]
        \/ pc' = [pc EXCEPT ![w] = "confirm"] /\ body' = body
    BY <1>5 DEF Confirm, Step
  <2> QED
    BY <1>0, <2>2, <2>3, <2>4 DEF HonestSteps, CachesTruth, CachesFor
<1>6. CASE Refund(w)
  <2>1. /\ pc' = [pc EXCEPT ![w] = "cache"] /\ body' = [body EXCEPT ![w] = "EXPIRED"]
        /\ UNCHANGED <<job, cached>> /\ job[w] \in refunded'
    BY <1>6 DEF Refund, Step, ingressVars
  <2> QED
    BY <2>1 DEF HonestSteps, CachesTruth, CachesFor
<1>7. CASE FailBooking(w)
  <2>1. /\ pc[w] = "fail" /\ pc' = [pc EXCEPT ![w] = "cache"]
        /\ UNCHANGED <<job, body, cached>>
    BY <1>7 DEF FailBooking, Step, ingressVars
  <2>2. bookingStatus'[job[w]] \in Terminal \cup {"ABSENT"}
    BY <1>0, <1>7, <2>1
    DEF FailBooking, FailIfPending, StoreTypeOK, BookingStates, Terminal
  <2> QED
    BY <1>0, <2>1, <2>2 DEF HonestSteps, CachesTruth, CachesFor
<1> QED
  BY <1>1, <1>2, <1>3, <1>4, <1>5, <1>6, <1>7 DEF WorkerStep

\* No step has a worker about to cache what is not so.
LEMMA NextHonest ==
  ASSUME Typed, BodyIsFresh, [Next]_vars
  PROVE  HonestSteps /\ CachesTruth
<1> USE DEF Typed, TypeOK, WorkerTypeOK, IngressTypeOK, Failing, workerVars, ingressVars
<1>1. ASSUME NEW b \in Bookings, IngressNext(b) PROVE HonestSteps /\ CachesTruth
  <2>1. UNCHANGED workerVars
    BY <1>1
    DEF IngressNext, CreateBooking, PublishAllocateJob, PublishFails, MarkUnpublished,
        CacheRejected, CacheAccepted, Ingress, IngressDies
  <2>2. \A c \in Bookings : cached'[c] \in {cached[c], "REJECTED", "ACCEPTED"}
    BY <1>1
    DEF IngressNext, CreateBooking, PublishAllocateJob, PublishFails, MarkUnpublished,
        CacheRejected, CacheAccepted, IngressDies
  <2> QED
    BY <2>1, <2>2 DEF HonestSteps, CachesTruth, CachesFor, Terminal
<1>2. ASSUME NEW w \in Workers, WorkerStep(w) PROVE HonestSteps /\ CachesTruth
  BY <1>2, WorkerStepHonest
<1>3. ASSUME NEW w \in Workers, NEW b \in Bookings, Deliver(w, b) \/ DeliverCallback(w, b)
      PROVE  HonestSteps /\ CachesTruth
  <2>1. body[w] # "CONFIRMED"
    BY <1>3 DEF Deliver, DeliverCallback, BodyIsFresh
  <2> QED
    BY <1>3, <2>1 DEF Deliver, DeliverCallback, HonestSteps, CachesTruth, CachesFor
<1>4. ASSUME NEW w \in Workers, Throws(w) \/ Dies(w) PROVE HonestSteps /\ CachesTruth
  <2>1. Finish(w) /\ cached' = cached
    BY <1>4 DEF Throws, Dies, Respond
  <2> QED
    BY <2>1 DEF Finish, HonestSteps, CachesTruth, CachesFor
<1>5. ASSUME NEW b \in Bookings, BrokerGivesUp(b) PROVE HonestSteps /\ CachesTruth
  BY <1>5 DEF BrokerGivesUp, HonestSteps, CachesTruth, CachesFor
<1>6. ASSUME NEW s \in Seats, Expire(s) PROVE HonestSteps /\ CachesTruth
  BY <1>6 DEF Expire, HonestSteps, CachesTruth, CachesFor
<1>7. Sweep => HonestSteps /\ CachesTruth
  BY DEF Sweep, HonestSteps, CachesTruth, CachesFor
<1>8. UNCHANGED vars => HonestSteps /\ CachesTruth
  BY DEF vars, HonestSteps, CachesTruth, CachesFor
<1> QED
  BY <1>1, <1>2, <1>3, <1>4, <1>5, <1>6, <1>7, <1>8 DEF Next

\* No booking is forgotten by the audit tables or by the broker's count.
Remembers ==
  /\ refunded \subseteq refunded'
  /\ dlq \subseteq dlq'
  /\ \A b \in Bookings : Reinvoked(b) => Reinvoked(b)'

\* A step with these effects keeps the names and the bodies true.
LEMMA TruthKept ==
  ASSUME Typed, Known, Honest, StoreKept, RowsStay, NamesOld, HonestSteps, Remembers, Typed'
  PROVE  (Known /\ Honest)'
<1>0. \A w \in Workers : pc[w] # "idle" => job[w] \in Bookings
  BY DEF Typed, BusyHasJob
<1>1. Known'
  <2>1. \A b \in Bookings : ingress'[b] # "idle" => bookingStatus'[b] # "ABSENT"
    BY DEF Known, RowsStay, NamesOld
  <2>2. \A b \in Bookings : phase'[b] # "unpublished" => bookingStatus'[b] # "ABSENT"
    BY DEF Known, RowsStay, NamesOld
  <2>3. \A w \in Workers : pc'[w] # "idle" => bookingStatus'[job'[w]] # "ABSENT"
    BY <1>0 DEF Known, RowsStay, NamesOld
  <2>4. \A b \in dlq' : bookingStatus'[b] # "ABSENT"
    BY DEF Known, RowsStay, NamesOld, Typed, TypeOK, IngressTypeOK
  <2> QED
    BY <2>1, <2>2, <2>3, <2>4 DEF Known
<1>2. Honest'
  <2>1. ASSUME NEW w \in Workers, body'[w] = "CONFIRMED"
        PROVE  pc'[w] = "cache" /\ bookingStatus'[job'[w]] = "CONFIRMED"
    BY <1>0, <2>1 DEF HonestSteps, Honest, StoreKept, Terminal
  <2>2. ASSUME NEW w \in Workers, Failing(w)' PROVE bookingStatus'[job'[w]] \in Terminal
    <3>1. CASE UNCHANGED <<pc[w], job[w], body[w]>>
      BY <1>0, <2>2, <3>1 DEF Failing, Honest, StoreKept
    <3>2. CASE ~UNCHANGED <<pc[w], job[w], body[w]>>
      BY <1>1, <2>2, <3>2 DEF HonestSteps, Failing, Known
    <3> QED
      BY <3>1, <3>2
  <2>3. ASSUME NEW w \in Workers, body'[w] = "EXPIRED" PROVE job'[w] \in refunded'
    BY <2>3 DEF HonestSteps, Honest, Remembers
  <2>4. ASSUME NEW w \in Workers, pc'[w] = "idle" PROVE body'[w] = "none"
    BY <2>4 DEF HonestSteps, Honest
  <2> QED
    BY <2>1, <2>2, <2>3, <2>4 DEF Honest
<1> QED
  BY <1>1, <1>2

\* What a step caches of a booking is so, unless a body that says FAILED stands
\* over a sold seat and there is an excuse for it.
LEMMA OutcomeKept ==
  ASSUME StoreKept, refunded \subseteq refunded',
         NEW b \in Bookings, HonestFor(b), CachesFor(b), NEW excuse \in BOOLEAN, OutcomeIsReal(b, excuse),
         NEW later \in BOOLEAN, excuse => later,
         bookingStatus[b] = "CONFIRMED" =>
           later \/ \A w \in Workers : Serves(w, b) => ~Failing(w)
  PROVE  /\ cached'[b] = "CONFIRMED" => bookingStatus'[b] = "CONFIRMED"
         /\ cached'[b] = "FAILED" =>
              \/ bookingStatus'[b] \in {"FAILED", "EXPIRED"}
              \/ bookingStatus'[b] = "CONFIRMED" /\ later
         /\ cached'[b] = "EXPIRED" => b \in refunded'
<1>1. CASE cached'[b] = cached[b]
  BY <1>1 DEF OutcomeIsReal, StoreKept, Terminal
<1>2. ASSUME NEW w \in Workers, pc[w] = "cache", job[w] = b, cached'[b] = StatusOf(body[w])
      PROVE  /\ cached'[b] = "CONFIRMED" => bookingStatus'[b] = "CONFIRMED"
             /\ cached'[b] = "FAILED" =>
                  \/ bookingStatus'[b] \in {"FAILED", "EXPIRED"}
                  \/ bookingStatus'[b] = "CONFIRMED" /\ later
             /\ cached'[b] = "EXPIRED" => b \in refunded'
  <2>1. CASE body[w] = "CONFIRMED"
    BY <1>2, <2>1 DEF StatusOf, HonestFor, Serves, StoreKept, Terminal
  <2>2. CASE body[w] = "EXPIRED"
    BY <1>2, <2>2 DEF StatusOf, HonestFor, Serves
  <2>3. CASE body[w] \notin {"CONFIRMED", "EXPIRED"}
    <3>1. Failing(w) /\ Serves(w, b)
      BY <1>2, <2>3 DEF Failing, Serves
    <3>2. bookingStatus[b] \in Terminal /\ bookingStatus'[b] = bookingStatus[b]
      BY <1>2, <3>1 DEF HonestFor, Serves, StoreKept
    <3>3. cached'[b] = "FAILED"
      BY <1>2, <2>3 DEF StatusOf
    <3> QED
      BY <3>1, <3>2, <3>3 DEF Terminal
  <2> QED
    BY <2>1, <2>2, <2>3
<1> QED
  BY <1>1, <1>2 DEF CachesFor, Terminal

\* The broker is done with the message, but for its callback.
Over == {"failed", "reporting", "reported"}

\* What a step does at the broker and at the ingress, as far as Lone cares.
BrokerSteps ==
  \A b \in Bookings :
    /\ attempt[b] > 0 => attempt'[b] > 0
    /\ phase[b] \in Over => phase'[b] \in Over \/ ingress[b] = "created"
    /\ attempt'[b] = 0 /\ phase'[b] \in {"unpublished", "queued"} =>
         phase[b] \in {"unpublished", "queued"} \/ ingress[b] = "created"
    /\ phase[b] = "unpublished" =>
         \/ phase'[b] = "unpublished"
         \/ ingress[b] = "created" /\ ingress'[b] \notin {"idle", "created"}
    /\ ingress'[b] \in {"idle", "created"} => ingress[b] \in {"idle", "created"}

\* What a step does to one invocation, as far as Lone cares.
Advances(v) ==
  \/ UNCHANGED <<pc[v], job[v], body[v]>>
  \/ pc'[v] = "idle"
  \/ /\ pc[v] \notin {"idle", "dlq"} /\ pc'[v] # "dlq" /\ job'[v] = job[v]
     /\ InCallback(v)' => InCallback(v)
     /\ bookingStatus'[job[v]] = "CONFIRMED" =>
          Sold(v)' \/ (bookingStatus[job[v]] = "CONFIRMED" /\ ~Sold(v))
  \/ /\ pc[v] = "idle" /\ pc'[v] # "dlq" /\ body'[v] = body[v] /\ job'[v] \in Bookings
     /\ phase[job'[v]] = "queued" /\ phase'[job'[v]] = "sent"
  \/ pc[v] = "idle" /\ pc'[v] = "dlq" /\ job'[v] \in Bookings /\ phase[job'[v]] = "failed"
       /\ phase'[job'[v]] = "reporting"
  \/ pc[v] = "dlq" /\ job'[v] = job[v] /\ job[v] \in dlq'

\* One invocation moves at a time.
OneAdvances ==
  /\ \A v \in Workers : Advances(v)
  /\ \A v, w \in Workers :
       v = w \/ UNCHANGED <<pc[v], job[v], body[v]>> \/ UNCHANGED <<pc[w], job[w], body[w]>>

\* An answer moves at most the message it is about, and never back.
LEMMA AnswersCount ==
  ASSUME Typed, NEW w \in Workers, pc[w] # "idle", NEW code \in {200, 489, 500},
         Respond(w, code), UNCHANGED <<ingress, dlq, refunded>>
  PROVE  BrokerSteps /\ Remembers
<1> USE DEF Typed, TypeOK, TransportTypeOK, Over
<1>1. job[w] \in Bookings
  BY DEF BusyHasJob
<1>2. \A b \in Bookings :
        /\ attempt'[b] \in Nat /\ attempt[b] \in Nat /\ attempt'[b] >= attempt[b]
        /\ phase'[b] # phase[b] =>
             /\ phase[b] # "unpublished"
             /\ phase'[b] # "unpublished"
             /\ phase'[b] = "queued" => attempt'[b] > 0
             /\ phase[b] \in Over => phase'[b] \in Over
  <2>1. CASE InCallback(w)
    BY <1>1, <2>1, RetryAssumption DEF Respond, AnswerCallback, Move, transportVars
  <2>2. CASE ~InCallback(w) /\ ~(phase[job[w]] = "sent" /\ attempt[job[w]] = retried[w])
    <3>1. UNCHANGED transportVars
      BY <2>2 DEF Respond, Answer
    <3> QED
      BY <3>1, RetryAssumption DEF transportVars
  <2>3. CASE ~InCallback(w) /\ phase[job[w]] = "sent" /\ attempt[job[w]] = retried[w]
    <3>1. CASE code = 200
      BY <1>1, <2>3, <3>1, RetryAssumption DEF Respond, Answer, Move
    <3>2. CASE code = 489
      BY <1>1, <2>3, <3>2, RetryAssumption DEF Respond, Answer, Move
    <3>3. CASE code = 500
      <4>1. RetryOrGiveUp(job[w])
        BY <2>3, <3>3 DEF Respond, Answer
      <4> QED
        BY <1>1, <2>3, <4>1, RetryAssumption DEF RetryOrGiveUp
    <3> QED
      BY <3>1, <3>2, <3>3
  <2> QED
    BY <2>1, <2>2, <2>3
<1> QED
  BY <1>2 DEF BrokerSteps, Remembers, Reinvoked

\* The ingress and the broker go forward only.
LEMMA NextBroker ==
  ASSUME Typed, [Next]_vars
  PROVE  BrokerSteps /\ Remembers
<1> USE DEF Typed, TypeOK, TransportTypeOK, Over, IngressTypeOK, transportVars, ingressVars, auditVars
<1>0. ASSUME UNCHANGED <<transportVars, ingress, refunded>>, dlq \subseteq dlq'
      PROVE  BrokerSteps /\ Remembers
  BY <1>0 DEF BrokerSteps, Remembers, Reinvoked
<1>1. ASSUME NEW b \in Bookings, IngressNext(b) PROVE BrokerSteps /\ Remembers
  <2>1. UNCHANGED <<attempt, dlq, refunded>>
    BY <1>1
    DEF IngressNext, CreateBooking, PublishAllocateJob, PublishFails, MarkUnpublished,
        CacheRejected, CacheAccepted, Ingress, IngressDies, Enqueue
  <2>2. CASE PublishAllocateJob(b) \/ PublishFails(b)
    BY <2>1, <2>2
    DEF PublishAllocateJob, PublishFails, Ingress, Enqueue, BrokerSteps, Remembers, Reinvoked
  <2>3. CASE CreateBooking(b) \/ MarkUnpublished(b) \/ CacheRejected(b) \/ CacheAccepted(b)
          \/ IngressDies(b)
    BY <2>1, <2>3
    DEF CreateBooking, MarkUnpublished, CacheRejected, CacheAccepted, Ingress, IngressDies,
        BrokerSteps, Remembers, Reinvoked
  <2> QED
    BY <1>1, <2>2, <2>3 DEF IngressNext
<1>2. ASSUME NEW w \in Workers, WorkerStep(w) PROVE BrokerSteps /\ Remembers
  <2>1. CASE AlreadyTerminal(w) \/ ReleaseForRetry(w) \/ CacheAndRespond(w)
    <3>1. pc[w] # "idle" /\ (\E code \in {200, 489, 500} : Respond(w, code))
          /\ UNCHANGED <<ingress, dlq, refunded>>
      BY <2>1 DEF AlreadyTerminal, ReleaseForRetry, CacheAndRespond
    <3> QED
      BY <3>1, AnswersCount
  <2>2. CASE SeesPending(w) \/ ReuseHold(w) \/ NoHoldYet(w) \/ AllocateSeat(w) \/ SoldOut(w)
          \/ LookupPayment(w) \/ InsertPayment(w) \/ PaymentUnavailable(w) \/ ConfirmReads(w)
          \/ Confirm(w) \/ ConfirmSeatOnly(w) \/ ConfirmNothing(w) \/ Unseat(w) \/ FailBooking(w)
    <3>1. UNCHANGED <<transportVars, ingress, refunded, dlq>>
      BY <2>2
      DEF SeesPending, ReuseHold, NoHoldYet, AllocateSeat, SoldOut, GoTerminal, LookupPayment,
          InsertPayment, PaymentUnavailable, ConfirmReads, Confirm, ConfirmSeatOnly,
          ConfirmNothing, Unseat, FailBooking, Step
    <3> QED
      BY <1>0, <3>1
  <2>3. CASE Refund(w)
    BY <2>3 DEF Refund, Step, BrokerSteps, Remembers, Reinvoked
  <2>4. CASE InsertDlqJob(w)
    BY <1>0, <2>4 DEF InsertDlqJob, Step
  <2> QED
    BY <1>2, <2>1, <2>2, <2>3, <2>4 DEF WorkerStep
<1>3. ASSUME NEW w \in Workers, NEW b \in Bookings, Deliver(w, b) \/ DeliverCallback(w, b)
      PROVE  BrokerSteps /\ Remembers
  BY <1>3 DEF Deliver, DeliverCallback, Move, BrokerSteps, Remembers, Reinvoked
<1>4. ASSUME NEW w \in Workers, Throws(w) PROVE BrokerSteps /\ Remembers
  <2>1. pc[w] # "idle" /\ (\E code \in {200, 489, 500} : Respond(w, code))
        /\ UNCHANGED <<ingress, dlq, refunded>>
    BY <1>4 DEF Throws
  <2> QED
    BY <2>1, AnswersCount
<1>5. ASSUME NEW b \in Bookings, BrokerGivesUp(b) PROVE BrokerSteps /\ Remembers
  <2>1. UNCHANGED <<ingress, dlq, refunded>>
    BY <1>5 DEF BrokerGivesUp
  <2>2. \A c \in Bookings :
          /\ attempt'[c] \in Nat /\ attempt[c] \in Nat /\ attempt'[c] >= attempt[c]
          /\ phase'[c] # phase[c] =>
               /\ phase[c] # "unpublished"
               /\ phase'[c] # "unpublished"
               /\ phase'[c] = "queued" => attempt'[c] > 0
               /\ phase[c] \in Over => phase'[c] \in Over
    BY <1>5, RetryAssumption DEF BrokerGivesUp, GiveUpWaiting, RetryOrGiveUp, Move
  <2> QED
    BY <2>1, <2>2 DEF BrokerSteps, Remembers, Reinvoked
<1>6. ASSUME NEW w \in Workers, Dies(w) PROVE BrokerSteps /\ Remembers
  BY <1>0, <1>6 DEF Dies
<1>7. ASSUME NEW s \in Seats, Expire(s) PROVE BrokerSteps /\ Remembers
  BY <1>0, <1>7 DEF Expire
<1>8. Sweep => BrokerSteps /\ Remembers
  BY <1>0 DEF Sweep
<1>9. UNCHANGED vars => BrokerSteps /\ Remembers
  BY <1>0 DEF vars
<1> QED
  BY <1>1, <1>2, <1>3, <1>4, <1>5, <1>6, <1>7, <1>8, <1>9 DEF Next

\* One statement of an invocation: it goes on, or it is over.
LEMMA WorkerStepAdvances ==
  ASSUME Typed, NEW w \in Workers, WorkerStep(w)
  PROVE  Advances(w) /\ \A v \in Workers \ {w} : UNCHANGED <<pc[v], job[v], body[v]>>
<1> USE DEF Typed, TypeOK, WorkerTypeOK
<1>1. CASE AlreadyTerminal(w) \/ ReleaseForRetry(w) \/ CacheAndRespond(w)
  BY <1>1 DEF AlreadyTerminal, ReleaseForRetry, CacheAndRespond, Respond, Finish, Advances
<1>2. CASE SeesPending(w) \/ ReuseHold(w) \/ NoHoldYet(w) \/ AllocateSeat(w)
        \/ InsertPayment(w) \/ Unseat(w)
  <2>1. /\ UNCHANGED <<job, body, bookingStatus>>
        /\ pc[w] \in {"booking", "findHold", "takeSeat", "insert", "unseat"}
        /\ \E to \in {"findHold", "takeSeat", "lookup", "confirm", "fail"} : pc' = [pc EXCEPT ![w] = to]
    BY <1>2
    DEF SeesPending, ReuseHold, NoHoldYet, AllocateSeat, InsertPayment, Unseat, Step, storeVars,
        bookingVars
  <2> QED
    BY <2>1 DEF Advances, InCallback, Sold
<1>3. CASE SoldOut(w) \/ LookupPayment(w) \/ PaymentUnavailable(w)
  <2>1. /\ UNCHANGED <<job, bookingStatus>>
        /\ pc[w] \in {"takeSeat", "lookup", "insert"}
        /\ \E to \in {"unseat", "insert", "confirm", "release"} : pc' = [pc EXCEPT ![w] = to]
    BY <1>3
    DEF SoldOut, LookupPayment, PaymentUnavailable, Step, GoTerminal, storeVars, bookingVars
  <2>2. \/ body' = body
        \/ \E what \in Bodies \ {"exhausted"} : body' = [body EXCEPT ![w] = what]
    BY <1>3 DEF SoldOut, LookupPayment, PaymentUnavailable, GoTerminal, Bodies
  <2> QED
    BY <2>1, <2>2 DEF Advances, InCallback, Sold
<1>4. CASE ConfirmReads(w)
  <2>1. /\ UNCHANGED <<job, body, bookingStatus>> /\ pc[w] = "confirm"
        /\ \/ bookingStatus[job[w]] = "PENDING" /\ pc' = [pc EXCEPT ![w] = "seal"]
           \/ pc' = [pc EXCEPT ![w] = "refund"]
    BY <1>4 DEF ConfirmReads, Step, storeVars, bookingVars
  <2> QED
    BY <2>1 DEF Advances, InCallback, Sold
<1>5. CASE Confirm(w)
  <2>1. /\ job' = job /\ pc[w] = "seal"
        /\ \/ pc' = [pc EXCEPT ![w] = "cache"] /\ body' = [body EXCEPT ![w] = "CONFIRMED"]
           \/ pc' = [pc EXCEPT ![w] = "confirm"] /\ body' = body
    BY <1>5 DEF Confirm, Step
  <2> QED
    BY <2>1 DEF Advances, InCallback, Sold, Failing
<1>6. CASE ConfirmSeatOnly(w) \/ ConfirmNothing(w)
  <2>1. /\ UNCHANGED <<job, body>> /\ pc[w] = "seal" /\ pc' = [pc EXCEPT ![w] = "refund"]
    BY <1>6 DEF ConfirmSeatOnly, ConfirmNothing, Step
  <2> QED
    BY <2>1 DEF Advances, InCallback, Sold
<1>7. CASE Refund(w)
  <2>1. /\ job' = job /\ pc[w] = "refund" /\ pc' = [pc EXCEPT ![w] = "cache"]
        /\ body' = [body EXCEPT ![w] = "EXPIRED"]
    BY <1>7 DEF Refund, Step
  <2> QED
    BY <2>1 DEF Advances, InCallback, Sold, Failing
<1>8. CASE FailBooking(w)
  <2>1. /\ UNCHANGED <<job, body>> /\ pc[w] = "fail" /\ pc' = [pc EXCEPT ![w] = "cache"]
        /\ job[w] \in Bookings
    BY <1>8 DEF FailBooking, Step, BusyHasJob
  <2>2. bookingStatus'[job[w]] = "CONFIRMED" => bookingStatus[job[w]] = "CONFIRMED"
    BY <1>8, <2>1 DEF FailBooking, FailIfPending, StoreTypeOK
  <2> QED
    BY <2>1, <2>2 DEF Advances, InCallback, Sold
<1>9. CASE InsertDlqJob(w)
  BY <1>9 DEF InsertDlqJob, Step, Advances
<1> QED
  BY <1>1, <1>2, <1>3, <1>4, <1>5, <1>6, <1>7, <1>8, <1>9 DEF WorkerStep

\* An invocation goes from statement to statement, one at a time.
LEMMA NextAdvances ==
  ASSUME Typed, [Next]_vars
  PROVE  OneAdvances
<1> USE DEF Typed, TypeOK, WorkerTypeOK, OneAdvances
<1>0. ASSUME UNCHANGED <<pc, job, body>> PROVE OneAdvances
  BY <1>0 DEF Advances
<1>1. ASSUME NEW w \in Workers, Advances(w), \A v \in Workers \ {w} : UNCHANGED <<pc[v], job[v], body[v]>>
      PROVE  OneAdvances
  BY <1>1 DEF Advances
<1>2. ASSUME NEW b \in Bookings, IngressNext(b) PROVE OneAdvances
  BY <1>0, <1>2
  DEF IngressNext, CreateBooking, PublishAllocateJob, PublishFails, MarkUnpublished,
      CacheRejected, CacheAccepted, Ingress, IngressDies, workerVars
<1>3. ASSUME NEW w \in Workers, WorkerStep(w) PROVE OneAdvances
  BY <1>1, <1>3, WorkerStepAdvances
<1>4. ASSUME NEW w \in Workers, NEW b \in Bookings, Deliver(w, b) PROVE OneAdvances
  <2>1. Advances(w)
    BY <1>4 DEF Deliver, Move, TransportTypeOK, Advances
  <2>2. \A v \in Workers \ {w} : UNCHANGED <<pc[v], job[v], body[v]>>
    BY <1>4 DEF Deliver
  <2> QED
    BY <1>1, <2>1, <2>2
<1>5. ASSUME NEW w \in Workers, NEW b \in Bookings, DeliverCallback(w, b) PROVE OneAdvances
  <2>1. Advances(w)
    BY <1>5 DEF DeliverCallback, Move, TransportTypeOK, Advances
  <2>2. \A v \in Workers \ {w} : UNCHANGED <<pc[v], job[v], body[v]>>
    BY <1>5 DEF DeliverCallback
  <2> QED
    BY <1>1, <2>1, <2>2
<1>6. ASSUME NEW w \in Workers, Throws(w) \/ Dies(w) PROVE OneAdvances
  <2>1. Finish(w)
    BY <1>6 DEF Throws, Dies, Respond
  <2> QED
    BY <1>1, <2>1 DEF Finish, Advances
<1>7. (\E b \in Bookings : BrokerGivesUp(b)) \/ (\E s \in Seats : Expire(s)) \/ Sweep
        \/ UNCHANGED vars => OneAdvances
  BY <1>0 DEF BrokerGivesUp, Expire, Sweep, vars, workerVars
<1> QED
  BY <1>2, <1>3, <1>4, <1>5, <1>6, <1>7 DEF Next

\* A booking becomes CONFIRMED by an invocation that serves it and goes on.
SoldByServer(b) ==
  bookingStatus'[b] = "CONFIRMED" =>
    \/ bookingStatus[b] = "CONFIRMED"
    \/ \E w \in Workers : Serves(w, b) /\ pc[w] = "seal" /\ pc'[w] \in {"cache", "confirm"}

\* A booking served by one delivery stays so until a second invocation is called.
LEMMA LoneKept ==
  ASSUME Typed, BrokerSteps, OneAdvances, \A w \in Workers : pc[w] = "idle" => body[w] = "none",
         NEW b \in Bookings, Lone(b), CachesFor(b), SoldByServer(b), attempt'[b] = 0,
         \A w \in Workers : Serves(w, b) /\ pc[w] = "dlq" => b \notin dlq'
  PROVE  Lone(b)'
<1> USE DEF Serves
<1>1. ASSUME NEW v \in Workers, Serves(v, b)', pc'[v] # "dlq"
      PROVE  \/ Serves(v, b) /\ pc[v] # "dlq"
             \/ phase[b] = "queued" /\ phase'[b] = "sent" /\ pc[v] = "idle" /\ body'[v] = "none"
  BY <1>1 DEF OneAdvances, Advances
<1>2. ASSUME NEW v \in Workers, Serves(v, b)'
      PROVE  Serves(v, b) \/ phase'[b] \in {"sent", "reporting"}
  BY <1>2 DEF OneAdvances, Advances
<1>3. phase[b] \in {"unpublished", "queued"} =>
        /\ \A w \in Workers : ~Serves(w, b)
        /\ bookingStatus[b] # "CONFIRMED" /\ bookingStatus'[b] # "CONFIRMED"
        /\ cached[b] # "FAILED" /\ cached'[b] # "FAILED"
  BY DEF Lone, SoldByServer, CachesFor, Terminal
<1>4. ingress'[b] \in {"idle", "created"} => phase'[b] = "unpublished"
  BY DEF Lone, BrokerSteps
<1>5. ASSUME phase'[b] \in {"unpublished", "queued"}
      PROVE  /\ \A w \in Workers : ~Serves(w, b)'
             /\ bookingStatus'[b] # "CONFIRMED"
             /\ cached'[b] # "FAILED"
  <2>1. phase[b] \in {"unpublished", "queued"}
    BY <1>5 DEF Lone, BrokerSteps
  <2> QED
    BY <1>2, <1>3, <1>5, <2>1
<1>6. ASSUME NEW v \in Workers, NEW w \in Workers,
             Serves(v, b)', Serves(w, b)', pc'[v] # "dlq", pc'[w] # "dlq"
      PROVE  v = w
  <2>1. CASE Serves(v, b) /\ pc[v] # "dlq" /\ Serves(w, b) /\ pc[w] # "dlq"
    BY <2>1 DEF Lone
  <2>2. CASE phase[b] = "queued"
    <3>1. pc[v] = "idle" /\ pc[w] = "idle"
      BY <1>1, <1>3, <1>6, <2>2
    <3> QED
      BY <1>6, <3>1 DEF OneAdvances
  <2> QED
    BY <1>1, <1>6, <2>1, <2>2
<1>7. ASSUME NEW v \in Workers, Serves(v, b)', pc'[v] # "dlq"
      PROVE  /\ ~InCallback(v)'
             /\ cached'[b] # "FAILED"
             /\ bookingStatus'[b] = "CONFIRMED" => Sold(v)'
  <2>1. CASE phase[b] = "queued" /\ body'[v] = "none"
    BY <1>3, <2>1 DEF InCallback
  <2>2. CASE Serves(v, b) /\ pc[v] # "dlq"
    <3>1. ~InCallback(v) /\ cached[b] # "FAILED" /\ (bookingStatus[b] = "CONFIRMED" => Sold(v))
      BY <2>2 DEF Lone
    <3>2. ~InCallback(v)'
      BY <1>7, <2>2, <3>1 DEF OneAdvances, Advances, InCallback
    <3>3. cached'[b] # "FAILED"
      <4>1. ASSUME NEW w \in Workers, pc[w] = "cache", pc'[w] = "idle", job[w] = b
            PROVE  FALSE
        BY <1>7, <2>2, <4>1 DEF Lone
      <4> QED
        BY <3>1, <4>1 DEF CachesFor, Terminal
    <3>4. ASSUME bookingStatus'[b] = "CONFIRMED" PROVE Sold(v)'
      <4>1. CASE bookingStatus[b] = "CONFIRMED"
        <5>1. CASE UNCHANGED <<pc[v], job[v], body[v]>>
          BY <3>1, <4>1, <5>1 DEF Sold, Failing
        <5>2. CASE ~UNCHANGED <<pc[v], job[v], body[v]>>
          BY <1>7, <2>2, <3>1, <3>4, <4>1, <5>2 DEF OneAdvances, Advances
        <5> QED
          BY <5>1, <5>2
      <4>2. CASE bookingStatus[b] # "CONFIRMED"
        <5>1. PICK w \in Workers : Serves(w, b) /\ pc[w] = "seal" /\ pc'[w] \in {"cache", "confirm"}
          BY <3>4, <4>2 DEF SoldByServer
        <5>2. w = v
          BY <2>2, <5>1 DEF Lone
        <5> QED
          BY <1>7, <2>2, <3>4, <4>2, <5>1, <5>2 DEF OneAdvances, Advances
      <4> QED
        BY <4>1, <4>2
    <3> QED
      BY <3>2, <3>3, <3>4
  <2> QED
    BY <1>1, <1>7, <2>1, <2>2
<1> QED
  BY <1>4, <1>5, <1>6, <1>7 DEF Lone

\* Initially nobody says anything.
LEMMA TruthfulInit == Init => Truthful
<1>1. Init => Safe
  BY SafeInit
<1> QED
  BY <1>1
  DEF Init, StoreInit, TransportInit, Truthful, Known, Honest, Failing, Alone, Lone, Serves,
      CachedOutcomeIsReal, OutcomeIsReal

\* Truthful is inductive.
LEMMA TruthfulStep == Truthful /\ [Next]_vars => Truthful'
<1> SUFFICES ASSUME Truthful, [Next]_vars PROVE Truthful'
  OBVIOUS
<1>1. Safe' /\ Typed'
  BY SafeStep DEF Truthful, Safe
<1>2. StoreKept /\ RowsStay /\ NamesOld
  BY NextKeeps, NextRowsStay, NextNamesOld DEF Truthful, Safe
<1>3. HonestSteps /\ CachesTruth
  BY NextHonest DEF Truthful, Safe, Honest, BodyIsFresh
<1>4. BrokerSteps /\ Remembers /\ OneAdvances
  BY NextBroker, NextAdvances DEF Truthful, Safe
<1>5. (Known /\ Honest)'
  BY <1>1, <1>2, <1>3, <1>4, TruthKept DEF Truthful, Safe
<1>6. Alone'
  <2> SUFFICES ASSUME NEW b \in Bookings, ~Reinvoked(b)' PROVE Lone(b)'
    BY DEF Alone
  <2>1. Lone(b)
    BY <1>4 DEF Truthful, Alone, Remembers
  <2>2. attempt'[b] = 0 /\ b \notin dlq'
    BY <1>1 DEF Reinvoked, Typed, TypeOK, TransportTypeOK
  <2>3. SoldByServer(b)
    BY <1>2 DEF SoldByServer, StoreKept, Confirm, Step, Serves, Truthful, Safe, Typed, TypeOK,
                WorkerTypeOK
  <2> QED
    BY <1>3, <1>4, <2>1, <2>2, <2>3, LoneKept DEF Truthful, Safe, Honest, CachesTruth
<1>7. CachedOutcomeIsReal'
  <2> SUFFICES ASSUME NEW b \in Bookings PROVE OutcomeIsReal(b, Reinvoked(b))'
    BY DEF CachedOutcomeIsReal
  <2>1. bookingStatus[b] = "CONFIRMED" =>
          Reinvoked(b)' \/ \A w \in Workers : Serves(w, b) => ~Failing(w)
    BY <1>4 DEF Truthful, Alone, Lone, Remembers, Sold, Failing
  <2>2. Reinvoked(b) => Reinvoked(b)'
    BY <1>4 DEF Remembers
  <2>3. /\ cached'[b] = "CONFIRMED" => bookingStatus'[b] = "CONFIRMED"
        /\ cached'[b] = "FAILED" =>
             \/ bookingStatus'[b] \in {"FAILED", "EXPIRED"}
             \/ bookingStatus'[b] = "CONFIRMED" /\ Reinvoked(b)'
        /\ cached'[b] = "EXPIRED" => b \in refunded'
    <3>1. Reinvoked(b) \in BOOLEAN /\ Reinvoked(b)' \in BOOLEAN
      BY DEF Reinvoked
    <3>2. OutcomeIsReal(b, Reinvoked(b))
      BY DEF Truthful, CachedOutcomeIsReal
    <3>3. HonestFor(b) /\ CachesFor(b) /\ refunded \subseteq refunded'
      BY <1>3, <1>4 DEF Truthful, Honest, HonestFor, Serves, CachesTruth, Remembers
    <3> QED
      BY <1>2, <2>1, <2>2, <3>1, <3>2, <3>3, OutcomeKept
  <2> QED
    BY <2>3 DEF OutcomeIsReal
<1> QED
  BY <1>1, <1>5, <1>6, <1>7 DEF Truthful

\* The idempotent replay never announces a CONFIRMED the bookings row does not bear
\* out, an EXPIRED without a refund, or a FAILED over a sold seat of a booking that
\* one delivery served.
THEOREM RepliesAreReal == Spec => []CachedOutcomeIsReal
<1>1. Truthful => CachedOutcomeIsReal
  BY DEF Truthful
<1> QED
  BY TruthfulInit, TruthfulStep, <1>1, PTL DEF Spec

-----------------------------------------------------------------------------
(* The engine implements the sale. *)

\* A step that turns down the PENDING bookings of B is a step of the sale.
LEMMA TurnsDown ==
  ASSUME Typed, NEW B \in SUBSET Bookings, NEW why \in {"FAILED", "EXPIRED"},
         \A b \in B : bookingStatus[b] = "PENDING",
         bookingStatus' = [b \in Bookings |-> IF b \in B THEN why ELSE bookingStatus[b]],
         bookingSeat' = bookingSeat
  PROVE  Sale!SaleNext
<1>1. Sale!TurnDown(B, why)
  BY DEF Sale!TurnDown, Outcome, Terminal
<1> QED
  BY <1>1 DEF Sale!SaleNext

\* The guarded UPDATE to FAILED turns one booking down or does nothing.
LEMMA FailIsTurnDown ==
  ASSUME Typed, NEW b \in Bookings, FailIfPending(b)
  PROVE  [Sale!SaleNext]_(Sale!saleVars)
<1> USE DEF Typed, TypeOK, StoreTypeOK
<1>1. CASE bookingStatus[b] = "PENDING"
  <2>1. bookingStatus' = [c \in Bookings |-> IF c \in {b} THEN "FAILED" ELSE bookingStatus[c]]
    BY <1>1 DEF FailIfPending
  <2>2. bookingSeat' = bookingSeat
    BY DEF FailIfPending
  <2>3. {b} \in SUBSET Bookings /\ \A c \in {b} : bookingStatus[c] = "PENDING"
    BY <1>1
  <2>4. Sale!SaleNext
    BY <2>1, <2>2, <2>3, TurnsDown
  <2> QED
    BY <2>4
<1>2. CASE bookingStatus[b] # "PENDING"
  <2>1. bookingStatus' = bookingStatus /\ bookingSeat' = bookingSeat
    BY <1>2 DEF FailIfPending
  <2> QED
    BY <2>1 DEF Sale!saleVars, Outcome
<1> QED
  BY <1>1, <1>2

\* One sweep turns down the bookings whose holds have expired.
LEMMA SweepIsTurnDown ==
  ASSUME Typed, Sweep
  PROVE  Sale!SaleNext
<1> DEFINE B == {b \in {seatBooking[s] : s \in ExpiredHolds} \cap Bookings :
                   bookingStatus[b] = "PENDING"}
<1>1. bookingStatus' = [b \in Bookings |-> IF b \in B THEN "EXPIRED" ELSE bookingStatus[b]]
  BY DEF Sweep, sweep_expired_holds, ExpireIfPending
<1>2. bookingSeat' = bookingSeat
  BY DEF Sweep, sweep_expired_holds, ExpireIfPending
<1>3. B \in SUBSET Bookings /\ \A b \in B : bookingStatus[b] = "PENDING"
  OBVIOUS
<1> HIDE DEF B
<1> QED
  BY <1>1, <1>2, <1>3, TurnsDown

\* confirm_booking sells a seat no CONFIRMED booking has.
LEMMA ConfirmIsSell ==
  ASSUME Safe, NEW w \in Workers, Confirm(w)
  PROVE  Sale!SaleNext
<1> USE DEF Safe, Typed, TypeOK, StoreTypeOK
<1>1. PICK s \in Seats :
        /\ seatStatus[s] = "RESERVED"
        /\ bookingStatus' = [bookingStatus EXCEPT ![job[w]] = "CONFIRMED"]
        /\ bookingSeat' = [bookingSeat EXCEPT ![job[w]] = s]
  BY ConfirmEffect
<1>2. job[w] \in Bookings /\ bookingStatus[job[w]] = "PENDING"
  BY ConfirmEffect
<1>3. s \notin Sale!Sold
  BY <1>1 DEF Sale!Sold, Outcome, ConfirmedHasSeat
<1>4. Sale!Sell(job[w], s)
  BY <1>1, <1>2, <1>3 DEF Sale!Sell, Outcome, Terminal
<1> QED
  BY <1>2, <1>4 DEF Sale!SaleNext

\* Every step of the engine is a step of the sale or leaves it unchanged.
LEMMA SaleStep ==
  ASSUME Safe, [Next]_vars
  PROVE  [Sale!SaleNext]_(Sale!saleVars)
<1>1. ASSUME UNCHANGED bookingVars PROVE UNCHANGED Sale!saleVars
  BY <1>1 DEF bookingVars, Sale!saleVars, Outcome
<1>2. ASSUME NEW b \in Bookings, IngressNext(b) PROVE [Sale!SaleNext]_(Sale!saleVars)
  <2>1. CASE CreateBooking(b)
    BY <2>1
    DEF CreateBooking, InsertBooking, Sale!saleVars, Outcome, Terminal, Safe, Typed, TypeOK,
        StoreTypeOK
  <2>2. CASE MarkUnpublished(b)
    BY <1>1, <2>2, FailIsTurnDown DEF MarkUnpublished, Safe
  <2>3. CASE PublishAllocateJob(b) \/ PublishFails(b) \/ CacheRejected(b) \/ CacheAccepted(b)
          \/ IngressDies(b)
    BY <1>1, <2>3
    DEF PublishAllocateJob, PublishFails, CacheRejected, CacheAccepted, IngressDies,
        storeVars, bookingVars
  <2> QED
    BY <1>2, <2>1, <2>2, <2>3 DEF IngressNext
<1>3. ASSUME NEW w \in Workers, WorkerStep(w) PROVE [Sale!SaleNext]_(Sale!saleVars)
  <2>1. CASE Confirm(w)
    BY <2>1, ConfirmIsSell
  <2>2. CASE FailBooking(w)
    <3>1. job[w] \in Bookings
      BY <2>2 DEF FailBooking, Step, Safe, Typed, BusyHasJob
    <3> QED
      BY <2>2, <3>1, FailIsTurnDown DEF FailBooking, Safe
  <2>3. CASE AllocateSeat(w) \/ InsertPayment(w) \/ ConfirmSeatOnly(w)
    BY <1>1, <2>3 DEF AllocateSeat, InsertPayment, ConfirmSeatOnly
  <2>4. CASE ReleaseForRetry(w)
    BY <1>1, <2>4 DEF ReleaseForRetry, release_hold_retryable, bookingVars
  <2>5. CASE SeesPending(w) \/ AlreadyTerminal(w) \/ ReuseHold(w) \/ NoHoldYet(w)
          \/ SoldOut(w) \/ LookupPayment(w) \/ PaymentUnavailable(w) \/ ConfirmReads(w)
          \/ ConfirmNothing(w) \/ Refund(w) \/ InsertDlqJob(w) \/ Unseat(w) \/ CacheAndRespond(w)
    <3>1. UNCHANGED storeVars
      BY <2>5
      DEF SeesPending, AlreadyTerminal, ReuseHold, NoHoldYet, SoldOut, GoTerminal,
          LookupPayment, PaymentUnavailable, ConfirmReads, ConfirmNothing, Refund,
          InsertDlqJob, Unseat, CacheAndRespond
    <3> QED
      BY <1>1, <3>1 DEF storeVars, bookingVars
  <2> QED
    BY <1>3, <2>1, <2>2, <2>3, <2>4, <2>5 DEF WorkerStep
<1>4. ASSUME NEW s \in Seats, Expire(s) PROVE UNCHANGED bookingVars
  BY <1>4 DEF Expire, HoldExpires, bookingVars
<1>5. ASSUME NEW b \in Bookings, BrokerGivesUp(b) PROVE UNCHANGED bookingVars
  BY <1>5 DEF BrokerGivesUp, storeVars, bookingVars
<1>6. ASSUME NEW w \in Workers, NEW b \in Bookings, Deliver(w, b) \/ DeliverCallback(w, b)
      PROVE UNCHANGED bookingVars
  BY <1>6 DEF Deliver, DeliverCallback, storeVars, bookingVars
<1>7. ASSUME NEW w \in Workers, Throws(w) \/ Dies(w) PROVE UNCHANGED bookingVars
  BY <1>7 DEF Throws, Dies, storeVars, bookingVars
<1>8. CASE Sweep
  BY <1>8, SweepIsTurnDown DEF Safe
<1>9. UNCHANGED vars => UNCHANGED bookingVars
  BY DEF vars, storeVars, bookingVars
<1> QED
  BY <1>1, <1>2, <1>3, <1>4, <1>5, <1>6, <1>7, <1>8, <1>9 DEF Next

\* The reservation engine implements SeatSale: the bookings table only ever
\* sells a free seat to an open booking or turns open bookings down.
THEOREM Refinement == Spec => SaleRefined
<1>1. Init => Sale!SaleInit
  BY DEF Init, StoreInit, Sale!SaleInit, Outcome, Terminal
<1> QED
  BY <1>1, SafeInit, SafeStep, SaleStep, PTL DEF Spec, SaleRefined, Sale!SaleSpec

\* No duplicate allocation: no seat is ever in two CONFIRMED bookings.
THEOREM NoSeatIsSoldTwice == Spec => []Sale!NoDuplicateSale
<1>1. Safe => Sale!NoDuplicateSale
  BY DEF Safe, ConfirmedHasSeat, Sale!NoDuplicateSale, Outcome, Terminal
<1> QED
  BY <1>1, SafeInit, SafeStep, PTL DEF Spec


-----------------------------------------------------------------------------
(* No job is lost. *)

\* The broker is through with a booking's job only when the booking is decided, or
\* its payment was refunded, or its failure callback has left a dlq_jobs row.
NoJobIsLost ==
  \A b \in Bookings :
    /\ phase[b] = "acked" => bookingStatus[b] \in Terminal \/ b \in refunded
    /\ phase[b] = "reported" => b \in dlq

\* A body says EXPIRED after the refund, and a callback moves on from its INSERT.
BodyIsBacked ==
  \A w \in Workers :
    /\ pc[w] = "idle" => body[w] = "none"
    /\ body[w] = "EXPIRED" => job[w] \in refunded
    /\ body[w] = "exhausted" /\ pc[w] # "dlq" => job[w] \in dlq

\* A 200 of a worker that serves w's job settles it.
MayAck(w) ==
  IF InCallback(w) THEN job[w] \in dlq
                   ELSE bookingStatus[job[w]] \in Terminal \/ job[w] \in refunded

LEMMA AnswerLosesNothing ==
  ASSUME Typed, NoJobIsLost, BodyIsBacked, NEW w \in Workers, pc[w] # "idle",
         NEW code \in {200, 489, 500}, Respond(w, code), code = 200 => MayAck(w),
         UNCHANGED <<bookingStatus, auditVars>>
  PROVE  NoJobIsLost' /\ BodyIsBacked'
<1>1. job[w] \in Bookings /\ dlq' = dlq /\ refunded' = refunded
  BY DEF Typed, BusyHasJob, auditVars
<1>2. BodyIsBacked'
  <2>1. Finish(w)
    BY DEF Respond
  <2> QED
    BY <1>1, <2>1 DEF Finish, BodyIsBacked, Typed, TypeOK, WorkerTypeOK
<1>3. ASSUME NEW b \in Bookings
      PROVE  /\ phase'[b] = "acked" => phase[b] = "acked" \/ (b = job[w] /\ code = 200 /\ ~InCallback(w))
             /\ phase'[b] = "reported" => phase[b] = "reported" \/ (b = job[w] /\ code = 200 /\ InCallback(w))
  <2>1. CASE InCallback(w)
    <3>1. AnswerCallback(job[w], code)
      BY <2>1 DEF Respond
    <3> QED
      BY <1>1, <2>1, <3>1 DEF AnswerCallback, Move, transportVars, Typed, TypeOK, TransportTypeOK
  <2>2. CASE ~InCallback(w)
    <3>1. Answer(job[w], retried[w], code)
      BY <2>2 DEF Respond
    <3>2. CASE UNCHANGED transportVars
      BY <3>2 DEF transportVars
    <3>3. CASE code = 200 /\ Move(job[w], "sent", "acked")
      BY <1>1, <2>2, <3>3 DEF Move, Typed, TypeOK, TransportTypeOK
    <3>4. CASE code = 489 /\ Move(job[w], "sent", "failed")
      BY <1>1, <3>4 DEF Move, Typed, TypeOK, TransportTypeOK
    <3>5. CASE code = 500 /\ RetryOrGiveUp(job[w])
      BY <1>1, <3>5 DEF RetryOrGiveUp, Typed, TypeOK, TransportTypeOK
    <3>6. ~(phase[job[w]] = "sent" /\ attempt[job[w]] = retried[w]) => UNCHANGED transportVars
      BY <3>1 DEF Answer
    <3>7. ASSUME phase[job[w]] = "sent" /\ attempt[job[w]] = retried[w]
          PROVE  \/ code = 200 /\ Move(job[w], "sent", "acked")
                 \/ code = 489 /\ Move(job[w], "sent", "failed")
                 \/ code = 500 /\ RetryOrGiveUp(job[w])
      <4>1. CASE code = 200
        BY <3>1, <3>7, <4>1 DEF Answer
      <4>2. CASE code = 489
        BY <3>1, <3>7, <4>2 DEF Answer
      <4>3. CASE code = 500
        BY <3>1, <3>7, <4>3 DEF Answer
      <4> QED
        BY <4>1, <4>2, <4>3
    <3> QED
      BY <3>2, <3>3, <3>4, <3>5, <3>6, <3>7
  <2> QED
    BY <2>1, <2>2
<1>4. NoJobIsLost'
  BY <1>1, <1>3 DEF NoJobIsLost, MayAck
<1> QED
  BY <1>2, <1>4

\* Decided bookings stay so, and neither the dead-letter queue nor the refunds shrink.
LEMMA NothingNewIsAcked ==
  ASSUME Typed, NoJobIsLost, StoreKept, dlq \subseteq dlq', refunded \subseteq refunded',
         \A b \in Bookings : phase'[b] \in {"acked", "reported"} => phase'[b] = phase[b]
  PROVE  NoJobIsLost'
BY DEF NoJobIsLost, StoreKept

LEMMA WorkerLosesNothing ==
  ASSUME Truthful, NoJobIsLost, BodyIsBacked, NEW w \in Workers, WorkerStep(w)
  PROVE  NoJobIsLost' /\ BodyIsBacked'
<1>0. Typed /\ Known /\ StoreKept /\ (pc[w] # "idle" => job[w] \in Bookings)
  BY WorkerStepKeeps DEF Truthful, Safe, Typed, BusyHasJob
<1>1. CASE AlreadyTerminal(w)
  <2>1. pc[w] = "booking" /\ Respond(w, 200) /\ UNCHANGED <<bookingStatus, auditVars>>
    BY <1>1 DEF AlreadyTerminal, storeVars
  <2>2. bookingStatus[job[w]] \in Terminal
    BY <1>0, <1>1, <2>1 DEF AlreadyTerminal, Known, Typed, TypeOK, StoreTypeOK, BookingStates
  <2>3. MayAck(w)
    BY <2>1, <2>2 DEF MayAck, InCallback, BodyIsBacked
  <2> QED
    BY <1>0, <2>1, <2>3, AnswerLosesNothing
<1>2. CASE ReleaseForRetry(w)
  <2>1. pc[w] = "release" /\ Respond(w, 500) /\ UNCHANGED <<bookingStatus, auditVars>>
    BY <1>2 DEF ReleaseForRetry, release_hold_retryable
  <2> QED
    BY <1>0, <2>1, AnswerLosesNothing
<1>3. CASE CacheAndRespond(w)
  <2>1. PICK code \in {200, 489, 500} :
          /\ pc[w] = "cache" /\ Respond(w, code) /\ UNCHANGED <<bookingStatus, auditVars>>
    BY <1>3 DEF CacheAndRespond, storeVars
  <2>2. MayAck(w)
    BY <2>1 DEF MayAck, InCallback, BodyIsBacked, Truthful, Honest, Failing, Terminal
  <2> QED
    BY <1>0, <2>1, <2>2, AnswerLosesNothing
<1>4. ASSUME pc[w] # "idle", pc'[w] # "idle", UNCHANGED <<job, transportVars>>,
             dlq \subseteq dlq', refunded \subseteq refunded',
             \A v \in Workers : v # w => body'[v] = body[v] /\ pc'[v] = pc[v],
             body'[w] = "EXPIRED" => body[w] = "EXPIRED" \/ job[w] \in refunded',
             body'[w] = "exhausted" => body[w] = "exhausted" /\ (pc[w] # "dlq" \/ job[w] \in dlq')
      PROVE  NoJobIsLost' /\ BodyIsBacked'
  <2>1. NoJobIsLost'
    BY <1>0, <1>4, NothingNewIsAcked DEF transportVars
  <2> QED
    BY <1>4, <2>1 DEF BodyIsBacked
<1> USE DEF Typed, TypeOK, WorkerTypeOK
<1>5. CASE SeesPending(w) \/ ReuseHold(w) \/ NoHoldYet(w) \/ AllocateSeat(w) \/ SoldOut(w)
  BY <1>0, <1>4, <1>5
  DEF SeesPending, ReuseHold, NoHoldYet, AllocateSeat, SoldOut, GoTerminal, Step, auditVars
<1>6. CASE LookupPayment(w)
  BY <1>0, <1>4, <1>6 DEF LookupPayment, GoTerminal, Step, auditVars
<1>7. CASE InsertPayment(w) \/ PaymentUnavailable(w)
  BY <1>0, <1>4, <1>7 DEF InsertPayment, PaymentUnavailable, GoTerminal, Step, auditVars
<1>8. CASE ConfirmReads(w) \/ Confirm(w) \/ ConfirmSeatOnly(w) \/ ConfirmNothing(w)
  BY <1>0, <1>4, <1>8
  DEF ConfirmReads, Confirm, ConfirmSeatOnly, ConfirmNothing, Step, auditVars
<1>9. CASE Refund(w) \/ InsertDlqJob(w)
  BY <1>0, <1>4, <1>9 DEF Refund, InsertDlqJob, Step
<1>10. CASE Unseat(w) \/ FailBooking(w)
  BY <1>0, <1>4, <1>10 DEF Unseat, FailBooking, Step, auditVars
<1> QED
  BY <1>1, <1>2, <1>3, <1>5, <1>6, <1>7, <1>8, <1>9, <1>10 DEF WorkerStep

LEMMA NothingIsLost ==
  Truthful /\ NoJobIsLost /\ BodyIsBacked /\ [Next]_vars => NoJobIsLost' /\ BodyIsBacked'
<1> SUFFICES ASSUME Truthful, NoJobIsLost, BodyIsBacked, [Next]_vars
             PROVE  NoJobIsLost' /\ BodyIsBacked'
  OBVIOUS
<1>0. Typed /\ StoreKept
  BY NextKeeps DEF Truthful, Safe
<1> USE DEF Typed, TypeOK, WorkerTypeOK, TransportTypeOK
<1>1. ASSUME UNCHANGED <<workerVars, auditVars>>,
             \A b \in Bookings : phase'[b] \in {"acked", "reported"} => phase'[b] = phase[b]
      PROVE  NoJobIsLost' /\ BodyIsBacked'
  BY <1>0, <1>1, NothingNewIsAcked DEF workerVars, auditVars, BodyIsBacked
<1>2. ASSUME NEW b \in Bookings, IngressNext(b) PROVE NoJobIsLost' /\ BodyIsBacked'
  <2>1. UNCHANGED <<workerVars, auditVars>>
    BY <1>2
    DEF IngressNext, CreateBooking, PublishAllocateJob, PublishFails, MarkUnpublished,
        CacheRejected, CacheAccepted, Ingress, IngressDies
  <2>2. Enqueue(b) \/ UNCHANGED transportVars
    BY <1>2
    DEF IngressNext, CreateBooking, PublishAllocateJob, PublishFails, MarkUnpublished,
        CacheRejected, CacheAccepted, IngressDies
  <2>3. \A c \in Bookings : phase'[c] \in {"acked", "reported"} => phase'[c] = phase[c]
    BY <1>0, <2>2 DEF Enqueue, transportVars
  <2> QED
    BY <1>1, <2>1, <2>3
<1>3. ASSUME NEW b \in Bookings, BrokerGivesUp(b) PROVE NoJobIsLost' /\ BodyIsBacked'
  <2>1. UNCHANGED <<workerVars, auditVars>> /\ GiveUpWaiting(b)
    BY <1>3 DEF BrokerGivesUp
  <2>2. \A c \in Bookings : phase'[c] \in {"acked", "reported"} => phase'[c] = phase[c]
    BY <1>0, <2>1 DEF GiveUpWaiting, RetryOrGiveUp, Move
  <2> QED
    BY <1>1, <2>1, <2>2
<1>4. ASSUME NEW w \in Workers, NEW b \in Bookings, Deliver(w, b) \/ DeliverCallback(w, b)
      PROVE  NoJobIsLost' /\ BodyIsBacked'
  <2>1. \A c \in Bookings : phase'[c] \in {"acked", "reported"} => phase'[c] = phase[c]
    BY <1>0, <1>4 DEF Deliver, DeliverCallback, Move
  <2>2. dlq' = dlq /\ refunded' = refunded
    BY <1>4 DEF Deliver, DeliverCallback, auditVars
  <2>3. NoJobIsLost'
    BY <1>0, <2>1, <2>2, NothingNewIsAcked
  <2>4. BodyIsBacked'
    BY <1>0, <1>4, <2>2 DEF Deliver, DeliverCallback, BodyIsBacked
  <2> QED
    BY <2>3, <2>4
<1>5. ASSUME NEW w \in Workers, WorkerStep(w) PROVE NoJobIsLost' /\ BodyIsBacked'
  BY <1>5, WorkerLosesNothing
<1>6. ASSUME NEW w \in Workers, Throws(w) PROVE NoJobIsLost' /\ BodyIsBacked'
  <2>1. PICK code \in {200, 489, 500} :
          /\ pc[w] # "idle" /\ Respond(w, code) /\ UNCHANGED <<bookingStatus, auditVars>>
          /\ code = 200 => InCallback(w) /\ pc[w] # "dlq"
    BY <1>6 DEF Throws, storeVars
  <2>2. code = 200 => MayAck(w)
    BY <2>1 DEF MayAck, InCallback, BodyIsBacked
  <2> QED
    BY <1>0, <2>1, <2>2, AnswerLosesNothing
<1>7. ASSUME NEW w \in Workers, Dies(w) PROVE NoJobIsLost' /\ BodyIsBacked'
  <2>1. Finish(w) /\ dlq' = dlq /\ refunded' = refunded /\ phase' = phase
    BY <1>7 DEF Dies, auditVars, transportVars
  <2>2. NoJobIsLost'
    BY <1>0, <2>1, NothingNewIsAcked
  <2>3. BodyIsBacked'
    BY <1>0, <2>1 DEF Finish, BodyIsBacked
  <2> QED
    BY <2>2, <2>3
<1>8. ASSUME NEW s \in Seats, Expire(s) PROVE NoJobIsLost' /\ BodyIsBacked'
  BY <1>1, <1>8 DEF Expire, transportVars
<1>9. Sweep \/ UNCHANGED vars => NoJobIsLost' /\ BodyIsBacked'
  BY <1>1 DEF Sweep, vars, transportVars
<1> QED
  BY <1>2, <1>3, <1>4, <1>5, <1>6, <1>7, <1>8, <1>9 DEF Next

\* No lost intent, as far as safety goes: whatever is delivered twice, answered late,
\* or dies, the broker does not drop a job whose booking nobody has settled.
THEOREM JobsAreSettled == Spec => []NoJobIsLost
<1>1. Init => NoJobIsLost /\ BodyIsBacked
  BY DEF Init, TransportInit, NoJobIsLost, BodyIsBacked
<1> QED
  BY <1>1, TruthfulInit, TruthfulStep, NothingIsLost, PTL DEF Spec

-----------------------------------------------------------------------------
(* Where second holds and second sales come from: one function of the database
   that runs twice at once for one booking. *)

\* No two invocations are between the two statements of allocate_seat for one
\* booking, and no two between those of confirm_booking.
AllocatesAlone ==
  \A v, w \in Workers :
    pc[v] = "takeSeat" /\ pc[w] = "takeSeat" /\ job[v] = job[w] => v = w

ConfirmsAlone ==
  \A v, w \in Workers : pc[v] = "seal" /\ pc[w] = "seal" /\ job[v] = job[w] => v = w

\* w moves and no other.
Moves(w) == \A v \in Workers : v # w => pc'[v] = pc[v] /\ job'[v] = job[v]

\* w's UPDATE seals a seat of its booking, which is decided when it is through.
SealsOne(w) ==
  /\ pc[w] = "seal" /\ pc'[w] # "seal" /\ Moves(w)
  /\ job[w] \in Bookings /\ bookingStatus'[job[w]] \in Terminal
  /\ \E s \in Seats : /\ seatBooking[s] = job[w] /\ seatBooking' = seatBooking
                      /\ seatStatus' = [seatStatus EXCEPT ![s] = "CONFIRMED"]
                      /\ holdLive' = [holdLive EXCEPT ![s] = FALSE]

\* w's UPDATE reserves a seat for its booking.
ReservesOne(w) ==
  /\ pc[w] = "takeSeat" /\ pc'[w] # "takeSeat" /\ Moves(w)
  /\ \E s \in Seats : /\ seatStatus' = [seatStatus EXCEPT ![s] = "RESERVED"]
                      /\ seatBooking' = [seatBooking EXCEPT ![s] = job[w]]
                      /\ holdLive' = [holdLive EXCEPT ![s] = TRUE]

\* No seat is sold and none is newly on hold.
NoneTaken ==
  \A s \in Seats :
    /\ seatStatus'[s] = "CONFIRMED" => seatStatus[s] = "CONFIRMED"
    /\ seatStatus'[s] = "RESERVED" /\ holdLive'[s] =>
         seatStatus[s] = "RESERVED" /\ holdLive[s] /\ seatBooking'[s] = seatBooking[s]

LEMMA VacateTakesNone ==
  ASSUME NEW S, Vacate(S) PROVE NoneTaken
BY DEF Vacate, NoneTaken

LEMMA SeatsUntouched ==
  ASSUME UNCHANGED seatVars PROVE NoneTaken
BY DEF seatVars, NoneTaken

\* One statement of an invocation.
LEMMA WorkerTakes ==
  ASSUME Typed, Known, NEW w \in Workers, WorkerStep(w)
  PROVE  SealsOne(w) \/ ReservesOne(w) \/ NoneTaken
<1> USE DEF Typed, TypeOK, WorkerTypeOK, StoreTypeOK
<1>1. CASE Confirm(w)
  <2>1. /\ pc[w] = "seal" /\ pc'[w] # "seal" /\ Moves(w)
    BY <1>1 DEF Confirm, Step, Moves
  <2>2. job[w] \in Bookings /\ bookingStatus'[job[w]] \in Terminal
    BY <1>1, ConfirmEffect DEF Terminal
  <2>3. \E s \in Seats : /\ seatBooking[s] = job[w] /\ seatBooking' = seatBooking
                         /\ seatStatus' = [seatStatus EXCEPT ![s] = "CONFIRMED"]
                         /\ holdLive' = [holdLive EXCEPT ![s] = FALSE]
    BY <1>1 DEF Confirm, CanSeal, HeldBy, SealSeat
  <2> QED
    BY <2>1, <2>2, <2>3 DEF SealsOne
<1>2. CASE ConfirmSeatOnly(w)
  <2>1. pc[w] = "seal" /\ pc'[w] # "seal" /\ Moves(w)
    BY <1>2 DEF ConfirmSeatOnly, Step, Moves
  <2>2. job[w] \in Bookings /\ bookingStatus'[job[w]] \in Terminal
    BY <1>2, <2>1 DEF ConfirmSeatOnly, BusyHasJob, Known, BookingStates, Terminal, bookingVars
  <2>3. \E s \in Seats : /\ seatBooking[s] = job[w] /\ seatBooking' = seatBooking
                         /\ seatStatus' = [seatStatus EXCEPT ![s] = "CONFIRMED"]
                         /\ holdLive' = [holdLive EXCEPT ![s] = FALSE]
    BY <1>2 DEF ConfirmSeatOnly, CanSeal, HeldBy, SealSeat
  <2> QED
    BY <2>1, <2>2, <2>3 DEF SealsOne
<1>3. CASE AllocateSeat(w)
  <2>1. pc[w] = "takeSeat" /\ pc'[w] # "takeSeat" /\ Moves(w)
    BY <1>3 DEF AllocateSeat, Step, Moves
  <2> QED
    BY <1>3, <2>1 DEF AllocateSeat, Free, Reserve, ReservesOne
<1>4. CASE ReleaseForRetry(w) \/ FailBooking(w)
  BY <1>4, VacateTakesNone DEF ReleaseForRetry, release_hold_retryable, FailBooking
<1>5. CASE InsertPayment(w)
  BY <1>5, SeatsUntouched DEF InsertPayment
<1>6. CASE SeesPending(w) \/ AlreadyTerminal(w) \/ ReuseHold(w) \/ NoHoldYet(w)
        \/ SoldOut(w) \/ LookupPayment(w) \/ PaymentUnavailable(w) \/ ConfirmReads(w)
        \/ ConfirmNothing(w) \/ Refund(w) \/ InsertDlqJob(w) \/ Unseat(w) \/ CacheAndRespond(w)
  <2>1. UNCHANGED storeVars
    BY <1>6
    DEF SeesPending, AlreadyTerminal, ReuseHold, NoHoldYet, SoldOut, GoTerminal,
        LookupPayment, PaymentUnavailable, ConfirmReads, ConfirmNothing, Refund,
        InsertDlqJob, Unseat, CacheAndRespond
  <2> QED
    BY <2>1, SeatsUntouched DEF storeVars, seatVars
<1> QED
  BY <1>1, <1>2, <1>3, <1>4, <1>5, <1>6 DEF WorkerStep

\* Seats are sold and put on hold by one invocation at a time.
LEMMA NextTakes ==
  ASSUME Typed, Known, [Next]_vars
  PROVE  \/ \E w \in Workers : SealsOne(w) \/ ReservesOne(w)
         \/ NoneTaken
<1>1. ASSUME NEW b \in Bookings, IngressNext(b) \/ BrokerGivesUp(b) PROVE UNCHANGED seatVars
  BY <1>1
  DEF IngressNext, CreateBooking, PublishAllocateJob, PublishFails, MarkUnpublished,
      CacheRejected, CacheAccepted, IngressDies, BrokerGivesUp, storeVars, seatVars
<1>2. ASSUME NEW w \in Workers, NEW b \in Bookings, Deliver(w, b) \/ DeliverCallback(w, b)
      PROVE  UNCHANGED seatVars
  BY <1>2 DEF Deliver, DeliverCallback, storeVars, seatVars
<1>3. ASSUME NEW w \in Workers, Throws(w) \/ Dies(w) PROVE UNCHANGED seatVars
  BY <1>3 DEF Throws, Dies, storeVars, seatVars
<1>4. ASSUME NEW s \in Seats, Expire(s) PROVE NoneTaken
  BY <1>4 DEF Expire, HoldExpires, NoneTaken, Typed, TypeOK, StoreTypeOK
<1>5. Sweep => NoneTaken
  BY VacateTakesNone DEF Sweep, sweep_expired_holds
<1>6. UNCHANGED vars => UNCHANGED seatVars
  BY DEF vars, storeVars, seatVars
<1> QED
  BY <1>1, <1>2, <1>3, <1>4, <1>5, <1>6, WorkerTakes, SeatsUntouched DEF Next

\* Who comes to the second statement of allocate_seat or of confirm_booking has read
\* that the booking has no live hold, or that it is PENDING.
Arrives ==
  \A v \in Workers :
    /\ pc'[v] = "takeSeat" => /\ job'[v] = job[v] /\ pc[v] # "idle"
                              /\ pc[v] = "takeSeat" \/ LiveHolds(job[v]) = {}
    /\ pc'[v] = "seal" => /\ job'[v] = job[v] /\ pc[v] # "idle"
                          /\ pc[v] = "seal" \/ bookingStatus[job[v]] = "PENDING"

LEMMA WorkerArrives ==
  ASSUME Typed, NEW w \in Workers, WorkerStep(w)
  PROVE  Arrives
<1> USE DEF Typed, TypeOK, WorkerTypeOK, Arrives
<1>1. CASE AlreadyTerminal(w) \/ ReleaseForRetry(w) \/ CacheAndRespond(w)
  <2>1. Finish(w)
    BY <1>1 DEF AlreadyTerminal, ReleaseForRetry, CacheAndRespond, Respond
  <2> QED
    BY <2>1 DEF Finish
<1>2. CASE NoHoldYet(w)
  BY <1>2 DEF NoHoldYet, Step
<1>3. CASE ConfirmReads(w)
  BY <1>3 DEF ConfirmReads, Step
<1>4. CASE LookupPayment(w) \/ InsertPayment(w) \/ PaymentUnavailable(w)
  BY <1>4 DEF LookupPayment, InsertPayment, PaymentUnavailable, Step
<1>5. CASE SeesPending(w) \/ ReuseHold(w) \/ AllocateSeat(w) \/ SoldOut(w)
  BY <1>5 DEF SeesPending, ReuseHold, AllocateSeat, SoldOut, Step
<1>6. CASE Confirm(w) \/ ConfirmSeatOnly(w) \/ ConfirmNothing(w) \/ Refund(w)
  BY <1>6 DEF Confirm, ConfirmSeatOnly, ConfirmNothing, Refund, Step
<1>7. CASE InsertDlqJob(w) \/ Unseat(w) \/ FailBooking(w)
  BY <1>7 DEF InsertDlqJob, Unseat, FailBooking, Step
<1> QED
  BY <1>1, <1>2, <1>3, <1>4, <1>5, <1>6, <1>7 DEF WorkerStep

LEMMA NextArrives ==
  ASSUME Typed, [Next]_vars
  PROVE  Arrives
<1> USE DEF Typed, TypeOK, WorkerTypeOK, Arrives
<1>1. ASSUME NEW b \in Bookings, IngressNext(b) \/ BrokerGivesUp(b) PROVE UNCHANGED workerVars
  BY <1>1
  DEF IngressNext, CreateBooking, PublishAllocateJob, PublishFails, MarkUnpublished,
      CacheRejected, CacheAccepted, Ingress, IngressDies, BrokerGivesUp
<1>2. ASSUME NEW w \in Workers, NEW b \in Bookings, Deliver(w, b) \/ DeliverCallback(w, b)
      PROVE  Arrives
  BY <1>2 DEF Deliver, DeliverCallback
<1>3. ASSUME NEW w \in Workers, Throws(w) \/ Dies(w) PROVE Arrives
  <2>1. Finish(w)
    BY <1>3 DEF Throws, Dies, Respond
  <2> QED
    BY <2>1 DEF Finish
<1>4. ASSUME NEW s \in Seats, Expire(s) \/ Sweep PROVE UNCHANGED workerVars
  BY <1>4 DEF Expire, Sweep
<1>5. Sweep \/ UNCHANGED vars => UNCHANGED workerVars
  BY DEF vars, Sweep
<1>6. UNCHANGED workerVars => Arrives
  BY DEF workerVars
<1> QED
  BY <1>1, <1>2, <1>3, <1>4, <1>5, <1>6, WorkerArrives DEF Next

\* Nobody is about to take a seat for a booking that has one.
HeldIsTaken ==
  /\ \A w \in Workers : pc[w] = "takeSeat" => LiveHolds(job[w]) = {}
  /\ OneHoldPerBooking

LEMMA HeldStep ==
  Truthful /\ AllocatesAlone /\ HeldIsTaken /\ [Next]_vars => HeldIsTaken'
<1> SUFFICES ASSUME Truthful, AllocatesAlone, HeldIsTaken, [Next]_vars PROVE HeldIsTaken'
  OBVIOUS
<1>0. Typed /\ Known
  BY DEF Truthful, Safe
<1>1. Arrives
  BY <1>0, NextArrives
<1>2. ASSUME NoneTaken PROVE HeldIsTaken'
  BY <1>1, <1>2 DEF Arrives, NoneTaken, HeldIsTaken, OneHoldPerBooking, LiveHolds, HeldBy
<1>3. ASSUME NEW w \in Workers, ReservesOne(w) PROVE HeldIsTaken'
  <2>1. PICK s \in Seats : /\ seatStatus' = [seatStatus EXCEPT ![s] = "RESERVED"]
                           /\ seatBooking' = [seatBooking EXCEPT ![s] = job[w]]
                           /\ holdLive' = [holdLive EXCEPT ![s] = TRUE]
    BY <1>3 DEF ReservesOne
  <2>2. LiveHolds(job[w]) = {}
    BY <1>3 DEF ReservesOne, HeldIsTaken
  <2>3. ASSUME NEW v \in Workers, pc'[v] = "takeSeat" PROVE LiveHolds(job[v])' = {}
    <3>1. v # w /\ pc[v] = "takeSeat" /\ job'[v] = job[v] /\ job[v] # job[w]
      BY <1>3, <2>3 DEF ReservesOne, Moves, AllocatesAlone
    <3>2. LiveHolds(job[v]) = {}
      BY <3>1 DEF HeldIsTaken
    <3> QED
      BY <1>0, <2>1, <3>1, <3>2 DEF LiveHolds, HeldBy, Typed, TypeOK, StoreTypeOK
  <2>4. OneHoldPerBooking'
    BY <1>0, <2>1, <2>2
    DEF HeldIsTaken, OneHoldPerBooking, LiveHolds, HeldBy, Typed, TypeOK, StoreTypeOK
  <2> QED
    BY <2>3, <2>4 DEF HeldIsTaken
<1>4. ASSUME NEW w \in Workers, SealsOne(w) PROVE HeldIsTaken'
  <2>1. PICK s \in Seats : /\ seatBooking[s] = job[w] /\ seatBooking' = seatBooking
                           /\ seatStatus' = [seatStatus EXCEPT ![s] = "CONFIRMED"]
                           /\ holdLive' = [holdLive EXCEPT ![s] = FALSE]
    BY <1>4 DEF SealsOne
  <2>2. \A t \in Seats : seatStatus'[t] = "RESERVED" /\ holdLive'[t] =>
          seatStatus[t] = "RESERVED" /\ holdLive[t] /\ seatBooking'[t] = seatBooking[t]
    BY <1>0, <2>1 DEF Typed, TypeOK, StoreTypeOK
  <2> QED
    BY <1>1, <2>2 DEF Arrives, HeldIsTaken, OneHoldPerBooking, LiveHolds, HeldBy
<1> QED
  BY <1>0, <1>2, <1>3, <1>4, NextTakes

\* Nobody is about to seal a seat for a booking that has one: it is decided.
SoldIsOver ==
  /\ \A s \in Seats : seatStatus[s] = "CONFIRMED" =>
       /\ seatBooking[s] \in Bookings /\ bookingStatus[seatBooking[s]] \in Terminal
       /\ \A w \in Workers : pc[w] = "seal" => job[w] # seatBooking[s]
  /\ OneSoldSeatPerBooking

LEMMA SoldStep ==
  Truthful /\ ConfirmsAlone /\ SoldIsOver /\ [Next]_vars => SoldIsOver'
<1> SUFFICES ASSUME Truthful, ConfirmsAlone, SoldIsOver, [Next]_vars PROVE SoldIsOver'
  OBVIOUS
<1>0. Typed /\ Known
  BY DEF Truthful, Safe
<1>1. Arrives /\ StoreKept
  BY <1>0, NextArrives, NextKeeps
<1>2. ASSUME NEW s \in Seats, seatStatus[s] = "CONFIRMED"
      PROVE  /\ seatBooking'[s] = seatBooking[s] /\ seatBooking[s] \in Bookings
             /\ bookingStatus'[seatBooking[s]] \in Terminal
             /\ \A v \in Workers : pc'[v] = "seal" => job'[v] # seatBooking[s]
  <2>1. seatBooking'[s] = seatBooking[s] /\ seatBooking[s] \in Bookings
        /\ bookingStatus[seatBooking[s]] \in Terminal
    BY <1>1, <1>2 DEF SoldIsOver, StoreKept
  <2>2. bookingStatus'[seatBooking[s]] \in Terminal
    BY <1>1, <2>1 DEF StoreKept
  <2>3. ASSUME NEW v \in Workers, pc'[v] = "seal" PROVE job'[v] # seatBooking[s]
    BY <1>1, <1>2, <2>1, <2>3 DEF SoldIsOver, Arrives, Terminal
  <2> QED
    BY <2>1, <2>2, <2>3
<1>3. ASSUME \A s \in Seats : seatStatus'[s] = "CONFIRMED" => seatStatus[s] = "CONFIRMED"
      PROVE  SoldIsOver'
  BY <1>2, <1>3 DEF SoldIsOver, OneSoldSeatPerBooking
<1>4. ASSUME NEW w \in Workers, SealsOne(w) PROVE SoldIsOver'
  <2>1. PICK s \in Seats : /\ seatBooking[s] = job[w] /\ seatBooking' = seatBooking
                           /\ seatStatus' = [seatStatus EXCEPT ![s] = "CONFIRMED"]
    BY <1>4 DEF SealsOne
  <2>2. \A t \in Seats : seatStatus'[t] = "CONFIRMED" => t = s \/ seatStatus[t] = "CONFIRMED"
    BY <1>0, <2>1 DEF Typed, TypeOK, StoreTypeOK
  <2>3. \A t \in Seats : seatStatus[t] = "CONFIRMED" => seatBooking[t] # job[w]
    BY <1>4 DEF SealsOne, SoldIsOver
  <2>4. ASSUME NEW v \in Workers, pc'[v] = "seal" PROVE job'[v] # job[w]
    BY <1>4, <2>4 DEF SealsOne, Moves, ConfirmsAlone
  <2>5. OneSoldSeatPerBooking'
    BY <2>1, <2>2, <2>3 DEF SoldIsOver, OneSoldSeatPerBooking
  <2>6. job[w] \in Bookings /\ bookingStatus'[job[w]] \in Terminal
    BY <1>4 DEF SealsOne
  <2>7. ASSUME NEW t \in Seats, seatStatus'[t] = "CONFIRMED"
        PROVE  /\ seatBooking'[t] \in Bookings /\ bookingStatus'[seatBooking'[t]] \in Terminal
               /\ \A v \in Workers : pc'[v] = "seal" => job'[v] # seatBooking'[t]
    <3>1. CASE t = s
      BY <2>1, <2>4, <2>6, <3>1
    <3>2. CASE seatStatus[t] = "CONFIRMED"
      BY <1>2, <3>2
    <3> QED
      BY <2>2, <2>7, <3>1, <3>2
  <2> QED
    BY <2>5, <2>7 DEF SoldIsOver
<1>5. ASSUME NEW w \in Workers, ReservesOne(w) PROVE SoldIsOver'
  <2>1. \A s \in Seats : seatStatus'[s] = "CONFIRMED" => seatStatus[s] = "CONFIRMED"
    BY <1>0, <1>5 DEF ReservesOne, Typed, TypeOK, StoreTypeOK
  <2> QED
    BY <1>3, <2>1
<1>6. NoneTaken => SoldIsOver'
  BY <1>3 DEF NoneTaken
<1> QED
  BY <1>0, <1>4, <1>5, <1>6, NextTakes

\* allocate_seat, "returns existing RESERVED hold instead of allocating a second
\* seat": it does, as long as it does not run twice at once for one booking.
THEOREM SecondHoldNeedsOverlap == Spec /\ []AllocatesAlone => []OneHoldPerBooking
<1>1. Init => HeldIsTaken
  BY DEF Init, StoreInit, HeldIsTaken, OneHoldPerBooking, LiveHolds, HeldBy
<1>2. HeldIsTaken => OneHoldPerBooking
  BY DEF HeldIsTaken
<1> QED
  BY <1>1, <1>2, TruthfulInit, TruthfulStep, HeldStep, PTL DEF Spec

\* confirm_booking: the check of bookings.status is what keeps a booking from two
\* seats, as long as no second confirm_booking of the booking comes between it and
\* the UPDATEs.
THEOREM SecondSaleNeedsOverlap == Spec /\ []ConfirmsAlone => []OneSoldSeatPerBooking
<1>1. Init => SoldIsOver
  BY DEF Init, StoreInit, SoldIsOver, OneSoldSeatPerBooking
<1>2. SoldIsOver => OneSoldSeatPerBooking
  BY DEF SoldIsOver
<1> QED
  BY <1>1, <1>2, TruthfulInit, TruthfulStep, SoldStep, PTL DEF Spec

\* If the broker delivered nothing again while an invocation may still run, both
\* would hold.
THEOREM OneInvocationOneSeat ==
  Spec /\ [](\A v, w \in Workers : pc[v] # "idle" /\ pc[w] # "idle" /\ job[v] = job[w] => v = w)
    => [](OneHoldPerBooking /\ OneSoldSeatPerBooking)
<1>1. (\A v, w \in Workers : pc[v] # "idle" /\ pc[w] # "idle" /\ job[v] = job[w] => v = w)
        => AllocatesAlone /\ ConfirmsAlone
  BY DEF AllocatesAlone, ConfirmsAlone
<1> QED
  BY <1>1, SecondHoldNeedsOverlap, SecondSaleNeedsOverlap, PTL

=============================================================================
