----------------------------- MODULE Reservation -----------------------------
(****************************************************************************)
(* The life of a booking: the tail of POST /api/book (create, publish,      *)
(* cache the 202), the allocate worker, the failure-callback webhook, the   *)
(* sweeper and the broker, all over the tables of SeatStore.                *)
(*                                                                          *)
(* A worker is one running serverless invocation.  It interleaves with the  *)
(* others between any two SQL statements, may die at any of them, and keeps *)
(* running after the broker has given up on it.  pc[w] names the statement  *)
(* it is about to execute:                                                  *)
(*                                                                          *)
(*   booking -> findHold -> takeSeat -> lookup <-> insert                   *)
(*      -> confirm -> seal -> cache                      (confirmed)        *)
(*                         \-> refund -> cache           (hold gone)        *)
(*   no seat, or payment failed for good -> unseat -> fail -> cache         *)
(*   payment failed, try again           -> release                         *)
(*   failure callback:            dlq -> unseat -> fail -> cache            *)
(****************************************************************************)
EXTENDS SeatStore, Transport

CONSTANT
  Workers         \* concurrent invocations

VARIABLES
  ingress,          \* where the POST that created the booking is
  cached,           \* idempotency_keys.response_* of the booking's key
  dlq,              \* bookings with a dlq_jobs row
  refunded,         \* bookings whose payment refund() was called for
  pc, job, retried, \* per worker: statement, job.bookingId, Upstash-Retried
  rows,             \* seats the worker's current function has read
  began,            \* the worker's hold was live when its transaction began
  body              \* response body the worker is about to cache

workerVars  == <<pc, job, retried, rows, began, body>>
ingressVars == <<ingress, cached>>
auditVars   == <<dlq, refunded>>
vars == <<storeVars, transportVars, ingressVars, auditVars, workerVars>>

Steps == {"idle", "booking", "findHold", "takeSeat", "lookup", "insert", "confirm",
          "seal", "refund", "release", "unseat", "fail", "dlq", "cache"}

\* What the body to be cached says; "exhausted" is the failure webhook's.
Bodies == {"none", "CONFIRMED", "EXPIRED", "sold_out", "payment_failed",
           "worker_error", "exhausted"}

\* null, the 202 PENDING body, the 502 body, or a terminal 200 body.
CacheStates == {"none", "ACCEPTED", "REJECTED"} \cup Terminal

IngressStates == {"idle", "created", "published", "unpublished", "tombstone",
                  "accepted", "rejected", "dead"}

IngressTypeOK ==
  /\ ingress \in [Bookings -> IngressStates]
  /\ cached \in [Bookings -> CacheStates]
  /\ dlq \subseteq Bookings
  /\ refunded \subseteq Bookings

WorkerTypeOK ==
  /\ pc \in [Workers -> Steps]
  /\ job \in [Workers -> Bookings \cup {NoBooking}]
  /\ retried \in [Workers -> 0 .. MaxRetries]
  /\ rows \in [Workers -> SUBSET Seats]
  /\ began \in [Workers -> BOOLEAN]
  /\ body \in [Workers -> Bodies]

TypeOK == StoreTypeOK /\ TransportTypeOK /\ IngressTypeOK /\ WorkerTypeOK

Init ==
  /\ StoreInit
  /\ TransportInit
  /\ ingress = [b \in Bookings |-> "idle"]
  /\ cached = [b \in Bookings |-> "none"]
  /\ dlq = {}
  /\ refunded = {}
  /\ pc = [w \in Workers |-> "idle"]
  /\ job = [w \in Workers |-> NoBooking]
  /\ retried = [w \in Workers |-> 0]
  /\ rows = [w \in Workers |-> {}]
  /\ began = [w \in Workers |-> FALSE]
  /\ body = [w \in Workers |-> "none"]

-----------------------------------------------------------------------------
(* POST /api/book, from the point where its idempotency key is fresh. *)

Ingress(b, from, to) ==
  /\ ingress[b] = from
  /\ ingress' = [ingress EXCEPT ![b] = to]
  /\ UNCHANGED <<auditVars, workerVars>>

CreateBooking(b) ==
  /\ Ingress(b, "idle", "created")
  /\ InsertBooking(b)
  /\ UNCHANGED <<seatVars, payment, transportVars, cached>>

PublishAllocateJob(b) ==
  /\ Ingress(b, "created", "published")
  /\ Enqueue(b)
  /\ UNCHANGED <<storeVars, cached>>

\* The error is swallowed and the request goes on.
BugPublishFails(b) ==
  /\ Ingress(b, "created", "published")
  /\ Enqueue(b) \/ UNCHANGED transportVars
  /\ UNCHANGED <<storeVars, cached>>

\* The call throws; the broker may have taken the message all the same.
PublishFails(b) ==
  /\ Ingress(b, "created", "unpublished")
  /\ Enqueue(b) \/ UNCHANGED transportVars
  /\ UNCHANGED <<storeVars, cached>>

\* The rollback UPDATE; a failure of it is only logged.
MarkUnpublished(b) ==
  /\ Ingress(b, "unpublished", "tombstone")
  /\ FailIfPending(b) \/ UNCHANGED bookingVars
  /\ UNCHANGED <<seatVars, payment, transportVars, cached>>

\* commitIdempotencyResponse of the 502; a failure of it is only logged.
CacheRejected(b) ==
  /\ Ingress(b, "tombstone", "rejected")
  /\ cached' = [cached EXCEPT ![b] = "REJECTED"] \/ UNCHANGED cached
  /\ UNCHANGED <<storeVars, transportVars>>

\* commitIdempotencyResponse of the 202, whatever the row holds by now.
CacheAccepted(b) ==
  /\ Ingress(b, "published", "accepted")
  /\ cached' = [cached EXCEPT ![b] = "ACCEPTED"]
  /\ UNCHANGED <<storeVars, transportVars>>

\* The function dies, or a statement outside a try block throws.
IngressDies(b) ==
  /\ ingress[b] \in {"created", "published", "unpublished", "tombstone"}
  /\ ingress' = [ingress EXCEPT ![b] = "dead"]
  /\ UNCHANGED <<storeVars, transportVars, cached, auditVars, workerVars>>

-----------------------------------------------------------------------------
(* Deliveries and answers. *)

Deliver(w, b) ==
  /\ pc[w] = "idle"
  /\ Move(b, "queued", "sent")
  /\ pc' = [pc EXCEPT ![w] = "booking"]
  /\ job' = [job EXCEPT ![w] = b]
  /\ retried' = [retried EXCEPT ![w] = attempt[b]]
  /\ UNCHANGED <<storeVars, ingressVars, auditVars, rows, began, body>>

DeliverCallback(w, b) ==
  /\ pc[w] = "idle"
  /\ Move(b, "failed", "reporting")
  /\ pc' = [pc EXCEPT ![w] = "dlq"]
  /\ job' = [job EXCEPT ![w] = b]
  /\ body' = [body EXCEPT ![w] = "exhausted"]
  /\ UNCHANGED <<storeVars, ingressVars, auditVars, retried, rows, began>>

InCallback(w) == body[w] = "exhausted"

\* The invocation is over; its locals are gone.
Finish(w) ==
  /\ pc' = [pc EXCEPT ![w] = "idle"]
  /\ job' = [job EXCEPT ![w] = NoBooking]
  /\ retried' = [retried EXCEPT ![w] = 0]
  /\ rows' = [rows EXCEPT ![w] = {}]
  /\ began' = [began EXCEPT ![w] = FALSE]
  /\ body' = [body EXCEPT ![w] = "none"]

Respond(w, code) ==
  /\ Finish(w)
  /\ IF InCallback(w) THEN AnswerCallback(job[w], code)
                      ELSE Answer(job[w], retried[w], code)

\* What the worker has read is not read again.
Forget(w) ==
  /\ rows' = [rows EXCEPT ![w] = {}]
  /\ began' = [began EXCEPT ![w] = FALSE]

\* The worker moves on to its next statement; the broker is not involved.
Step(w, from, to) ==
  /\ pc[w] = from
  /\ pc' = [pc EXCEPT ![w] = to]
  /\ UNCHANGED <<job, retried, transportVars, ingressVars>>

-----------------------------------------------------------------------------
(* The allocate worker, one action per statement. *)

SeesPending(w) ==
  /\ Step(w, "booking", "findHold")
  /\ bookingStatus[job[w]] = "PENDING"
  /\ UNCHANGED <<storeVars, auditVars, rows, began, body>>

\* status # PENDING: acknowledged, nothing cached.
AlreadyTerminal(w) ==
  /\ pc[w] = "booking"
  /\ bookingStatus[job[w]] # "PENDING"
  /\ Respond(w, 200)
  /\ UNCHANGED <<storeVars, ingressVars, auditVars>>

\* allocate_seat, first statement: a live hold of this booking is returned.
ReuseHold(w) ==
  /\ Step(w, "findHold", "lookup")
  /\ \E s \in LiveHolds(job[w]) : rows' = [rows EXCEPT ![w] = {s}]
  /\ UNCHANGED <<storeVars, auditVars, began, body>>

NoHoldYet(w) ==
  /\ Step(w, "findHold", "takeSeat")
  /\ LiveHolds(job[w]) = {}
  /\ UNCHANGED <<storeVars, auditVars, rows, began, body>>

\* allocate_seat, second statement.  SKIP LOCKED makes the choice of seat
\* depend on which rows other transactions have locked: any AVAILABLE seat, or
\* none (SoldOut).
\* When the reply is lost pgPolicy calls the function again within seconds and
\* finds this hold, or gives up, which is Dies with BrokerGivesUp.
AllocateSeat(w) ==
  /\ Step(w, "takeSeat", "lookup")
  /\ \E s \in Free :
       /\ Reserve(s, job[w])
       /\ rows' = [rows EXCEPT ![w] = {s}]
  /\ UNCHANGED <<bookingVars, payment, auditVars, began, body>>

\* From here on the worker will fail the booking and cache what.
GoTerminal(w, what) ==
  /\ body' = [body EXCEPT ![w] = what]
  /\ Forget(w)
  /\ UNCHANGED <<storeVars, auditVars>>

\* allocate_seat returns no row: every AVAILABLE seat, if there is one, is locked
\* by a transaction that is still open (another invocation, an earlier call whose
\* reply was lost, a reset) and may yet be rolled back.  Those transactions are
\* not tracked here, so the engine may be told so at any time.
SoldOut(w) ==
  /\ Step(w, "takeSeat", "unseat")
  /\ GoTerminal(w, "sold_out")

LastAttempt(w) == retried[w] >= MaxRetries

\* charge() replays whatever row it finds as a success.
BugLookupPayment(w) ==
  /\ pc[w] = "lookup"
  /\ \/ payment[job[w]] = "none" /\ Step(w, "lookup", "insert")
     \/ payment[job[w]] # "none" /\ Step(w, "lookup", "confirm")
  /\ UNCHANGED <<storeVars, auditVars, rows, began, body>>

\* charge(), the SELECT: an earlier success is replayed, an earlier failure is
\* thrown again, and only a key without a row is charged.
LookupPayment(w) ==
  /\ pc[w] = "lookup"
  /\ LET p == payment[job[w]] IN
     \/ /\ p = "none"
        /\ Step(w, "lookup", "insert")
        /\ UNCHANGED <<storeVars, auditVars, rows, began, body>>
     \/ /\ p = "succeeded"
        /\ Step(w, "lookup", "confirm")
        /\ UNCHANGED <<storeVars, auditVars, rows, began, body>>
     \/ /\ p = "payment_declined" \/ (p = "gateway_timeout" /\ LastAttempt(w))
        /\ Step(w, "lookup", "unseat")
        /\ GoTerminal(w, "payment_failed")
     \/ /\ p = "gateway_timeout" /\ ~LastAttempt(w)
        /\ Step(w, "lookup", "release")
        /\ Forget(w)
        /\ UNCHANGED <<storeVars, auditVars, body>>

\* charge(), the INSERT.  A PaymentError, a UNIQUE violation and a lost reply
\* all make paymentPolicy call charge() again.
InsertPayment(w) ==
  /\ pc[w] = "insert"
  /\ \/ /\ payment[job[w]] = "none"
        /\ \E r \in PaymentStates \ {"none"} :
             /\ payment' = [payment EXCEPT ![job[w]] = r]
             /\ \/ r = "succeeded" /\ Step(w, "insert", "confirm")
                \/ Step(w, "insert", "lookup")
     \/ /\ payment[job[w]] # "none"
        /\ Step(w, "insert", "lookup")
        /\ UNCHANGED payment
  /\ UNCHANGED <<seatVars, bookingVars, auditVars, rows, began, body>>

\* paymentPolicy rejects with something else: its timeout or its open breaker.
PaymentUnavailable(w) ==
  \E from \in {"lookup", "insert"} :
    \/ /\ LastAttempt(w)
       /\ Step(w, from, "unseat")
       /\ GoTerminal(w, "worker_error")
    \/ /\ ~LastAttempt(w)
       /\ Step(w, from, "release")
       /\ Forget(w)
       /\ UNCHANGED <<storeVars, auditVars, body>>

ReleaseForRetry(w) ==
  /\ pc[w] = "release"
  /\ release_hold_retryable(job[w])
  /\ Respond(w, 500)
  /\ UNCHANGED <<ingressVars, auditVars>>

\* confirm_booking, the SELECT; now() is fixed here for the whole function.
ConfirmReads(w) ==
  /\ pc[w] = "confirm"
  /\ \/ /\ bookingStatus[job[w]] = "PENDING"
        /\ Step(w, "confirm", "seal")
        /\ began' = [began EXCEPT ![w] = \A s \in rows[w] : holdLive[s]]
        /\ UNCHANGED rows
     \/ /\ bookingStatus[job[w]] # "PENDING"
        /\ Step(w, "confirm", "refund")
        /\ Forget(w)
  /\ UNCHANGED <<storeVars, auditVars, body>>

\* The UPDATE on seats finds its row.
CanSeal(w, s) ==
  /\ s \in rows[w] \cap HeldBy(job[w])
  /\ holdLive[s] \/ began[w]

\* confirm_booking, both UPDATEs.  When the reply is lost pgPolicy calls the
\* function again.
Confirm(w) ==
  /\ pc[w] = "seal"
  /\ bookingStatus[job[w]] = "PENDING"
  /\ \E s \in Seats : CanSeal(w, s) /\ SealSeat(s) /\ ConfirmBookingRow(job[w], s)
  /\ \/ Step(w, "seal", "cache") /\ Forget(w) /\ body' = [body EXCEPT ![w] = "CONFIRMED"]
     \/ Step(w, "seal", "confirm") /\ UNCHANGED <<rows, began, body>>
  /\ UNCHANGED <<payment, auditVars>>

\* The seat is updated, but the booking has left PENDING since the SELECT: the
\* second UPDATE matches no row, the function returns none and commits.
ConfirmSeatOnly(w) ==
  /\ Step(w, "seal", "refund")
  /\ bookingStatus[job[w]] # "PENDING"
  /\ \E s \in Seats : CanSeal(w, s) /\ SealSeat(s)
  /\ Forget(w)
  /\ UNCHANGED <<bookingVars, payment, auditVars, body>>

\* confirm_booking forgets IF NOT FOUND THEN RETURN.
BugConfirmNothing(w) ==
  /\ Step(w, "seal", "cache")
  /\ \A s \in Seats : ~CanSeal(w, s)
  /\ bookingStatus[job[w]] = "PENDING"
  /\ \E s \in rows[w] : ConfirmBookingRow(job[w], s)
  /\ Forget(w)
  /\ body' = [body EXCEPT ![w] = "CONFIRMED"]
  /\ UNCHANGED <<seatVars, payment, auditVars>>

\* The hold is gone or expired.
ConfirmNothing(w) ==
  /\ Step(w, "seal", "refund")
  /\ \A s \in Seats : ~CanSeal(w, s)
  /\ Forget(w)
  /\ UNCHANGED <<storeVars, auditVars, body>>

\* Zero rows from confirm_booking are reported as a failure that is acknowledged.
BugRefund(w) ==
  /\ Step(w, "refund", "cache")
  /\ refunded' = refunded \cup {job[w]}
  /\ body' = [body EXCEPT ![w] = "sold_out"]
  /\ UNCHANGED <<storeVars, dlq, rows, began>>

\* refund() only logs; the call itself is recorded.
Refund(w) ==
  /\ Step(w, "refund", "cache")
  /\ refunded' = refunded \cup {job[w]}
  /\ body' = [body EXCEPT ![w] = "EXPIRED"]
  /\ UNCHANGED <<storeVars, dlq, rows, began>>

-----------------------------------------------------------------------------
(* release_hold_terminal and the response, shared by worker and webhook. *)

\* The UPDATE on seats picks its rows; they become AVAILABLE at commit.
Unseat(w) ==
  /\ Step(w, "unseat", "fail")
  /\ rows' = [rows EXCEPT ![w] = HeldBy(job[w])]
  /\ UNCHANGED <<storeVars, auditVars, began, body>>

FailBooking(w) ==
  /\ Step(w, "fail", "cache")
  /\ Vacate(rows[w] \cap HeldBy(job[w]))
  /\ FailIfPending(job[w])
  /\ Forget(w)
  /\ UNCHANGED <<payment, auditVars, body>>

\* status of the body that is cached
StatusOf(what) == IF what \in {"CONFIRMED", "EXPIRED"} THEN what ELSE "FAILED"

\* commitIdempotencyResponse overwrites whatever is there, then the answer.
CacheAndRespond(w) ==
  /\ pc[w] = "cache"
  /\ cached' = [cached EXCEPT ![job[w]] = StatusOf(body[w])]
  /\ Respond(w, IF body[w] \in {"payment_failed", "worker_error"} THEN 489 ELSE 200)
  /\ UNCHANGED <<storeVars, ingress, auditVars>>

\* The failure webhook: INSERT ... ON CONFLICT DO NOTHING.
InsertDlqJob(w) ==
  /\ Step(w, "dlq", "unseat")
  /\ dlq' = dlq \cup {job[w]}
  /\ UNCHANGED <<storeVars, refunded, rows, began, body>>

-----------------------------------------------------------------------------
(* Failures. *)

\* A statement throws after pgPolicy has given up.  The worker answers 500,
\* from its own catch blocks or from the runtime; the webhook answers 500 only
\* when the INSERT failed and swallows an error of its clean-up.
Throws(w) ==
  /\ pc[w] \notin {"idle", "lookup", "insert"}
  /\ Respond(w, IF InCallback(w) /\ pc[w] # "dlq" THEN 200 ELSE 500)
  /\ UNCHANGED <<storeVars, ingressVars, auditVars>>

\* The invocation is killed: no answer at all.
Dies(w) ==
  /\ pc[w] # "idle"
  /\ Finish(w)
  /\ UNCHANGED <<storeVars, transportVars, ingressVars, auditVars>>

BrokerGivesUp(b) ==
  /\ GiveUpWaiting(b)
  /\ UNCHANGED <<storeVars, ingressVars, auditVars, workerVars>>

(* Time and the scheduled sweeper. *)

Expire(s) ==
  /\ HoldExpires(s)
  /\ UNCHANGED <<transportVars, ingressVars, auditVars, workerVars>>

Sweep ==
  /\ sweep_expired_holds
  /\ UNCHANGED <<transportVars, ingressVars, auditVars, workerVars>>

-----------------------------------------------------------------------------
IngressNext(b) ==
  \/ CreateBooking(b) \/ PublishAllocateJob(b) \/ PublishFails(b)
  \/ MarkUnpublished(b) \/ CacheRejected(b) \/ CacheAccepted(b) \/ IngressDies(b)

\* One statement of a running invocation.
WorkerStep(w) ==
  \/ SeesPending(w) \/ AlreadyTerminal(w)
  \/ ReuseHold(w) \/ NoHoldYet(w) \/ AllocateSeat(w) \/ SoldOut(w)
  \/ LookupPayment(w) \/ InsertPayment(w) \/ PaymentUnavailable(w) \/ ReleaseForRetry(w)
  \/ ConfirmReads(w) \/ Confirm(w) \/ ConfirmSeatOnly(w) \/ ConfirmNothing(w) \/ Refund(w)
  \/ InsertDlqJob(w) \/ Unseat(w) \/ FailBooking(w) \/ CacheAndRespond(w)

Next ==
  \/ \E b \in Bookings : IngressNext(b) \/ BrokerGivesUp(b)
  \/ \E w \in Workers, b \in Bookings : Deliver(w, b) \/ DeliverCallback(w, b)
  \/ \E w \in Workers : WorkerStep(w) \/ Throws(w) \/ Dies(w)
  \/ \E s \in Seats : Expire(s)
  \/ Sweep

Spec == Init /\ [][Next]_vars

\* The broker delivers and stops waiting, invocations run, time passes and the
\* sweeper's schedule fires.  A callback is sent again until it is answered
\* with 2xx, so one of its INSERTs gets through.  Nothing is assumed of POSTs.
Fairness ==
  /\ \A b \in Bookings :
       /\ WF_vars(\E w \in Workers : Deliver(w, b) \/ DeliverCallback(w, b))
       /\ WF_vars(BrokerGivesUp(b))
       /\ SF_vars(\E w \in Workers : job[w] = b /\ InsertDlqJob(w))
  /\ \A w \in Workers : WF_vars(WorkerStep(w))
  /\ \A s \in Seats : WF_vars(Expire(s))
  /\ WF_vars(Sweep)

FairSpec == Spec /\ Fairness

-----------------------------------------------------------------------------
(* What must hold. *)

\* A CONFIRMED booking sits in a seat that is CONFIRMED for it: whatever two
\* deliveries, the sweeper and the release functions do in between, the two
\* UPDATEs of confirm_booking never leave the booking without its seat.
ConfirmedHasSeat ==
  \A b \in Bookings : bookingStatus[b] = "CONFIRMED" =>
    /\ bookingSeat[b] \in Seats
    /\ seatStatus[bookingSeat[b]] = "CONFIRMED"
    /\ seatBooking[bookingSeat[b]] = b

\* A booking is CONFIRMED only on a recorded successful charge, which no retry,
\* replay or duplicate turns into something else.
PaidBeforeConfirmed ==
  \A b \in Bookings : bookingStatus[b] = "CONFIRMED" => payment[b] = "succeeded"

\* The broker has called a second invocation for the booking: a delivery is
\* repeated, or the failure callback has inserted its row.
Reinvoked(b) == attempt[b] > 0 \/ b \in dlq

\* What is cached rests on something that happened to b; excuse says when FAILED
\* may stand over a sold seat.
OutcomeIsReal(b, excuse) ==
  /\ cached[b] = "CONFIRMED" => bookingStatus[b] = "CONFIRMED"
  /\ cached[b] = "FAILED" =>
       \/ bookingStatus[b] \in {"FAILED", "EXPIRED"}
       \/ bookingStatus[b] = "CONFIRMED" /\ excuse
  /\ cached[b] = "EXPIRED" => b \in refunded

\* What a replay announces happened: CONFIRMED means a CONFIRMED row, EXPIRED a
\* refund, and FAILED a row that was turned down, unless a second invocation was
\* called.  The failure webhook, and a worker that overlaps another, cache FAILED
\* whatever the row holds (ConfirmedReplyIsKept does not hold); a booking served
\* by one delivery is never told FAILED about the seat that delivery sold it.
CachedOutcomeIsReal == \A b \in Bookings : OutcomeIsReal(b, Reinvoked(b))

\* A decided booking is never decided again, by a late delivery, the sweeper,
\* the failure webhook or the publish rollback.
TerminalIsFinal ==
  [][\A b \in Bookings : bookingStatus[b] \in Terminal =>
       UNCHANGED <<bookingStatus[b], bookingSeat[b]>>]_vars

\* A sold seat is never released, reserved or given to someone else.
SoldSeatIsFinal ==
  [][\A s \in Seats : seatStatus[s] = "CONFIRMED" =>
       UNCHANGED <<seatStatus[s], seatBooking[s]>>]_vars

\* Nobody takes a live hold from a booking: only a worker serving that booking
\* ends it before held_until, and it goes to no other booking directly.
LiveHoldIsKept ==
  [][\A b \in Bookings : \A s \in LiveHolds(b) :
       \/ seatBooking'[s] = b
       \/ /\ seatStatus'[s] = "AVAILABLE"
          /\ \E w \in Workers : job[w] = b /\ pc[w] \in {"release", "fail"} /\ pc'[w] # pc[w]
    ]_vars

\* No seat stays blocked by a hold: crashed, abandoned and zombie workers
\* included, every hold is confirmed, released or swept, and for good.
HoldsAreResolved == \A s \in Seats : <>[](seatStatus[s] # "RESERVED")

\* A published booking is settled: it ends CONFIRMED, FAILED or EXPIRED, or an
\* operator finds it in dlq_jobs, or a worker has told its client EXPIRED.  The
\* last case does not imply that the bookings row ever becomes EXPIRED.
PublishedIsSettled ==
  \A b \in Bookings :
    phase[b] # "unpublished" ~>
      (bookingStatus[b] \in Terminal \/ b \in dlq \/ b \in refunded)

\* The bookings table, read as a sale of seats.
Outcome == [b \in Bookings |->
              IF bookingStatus[b] \in Terminal THEN bookingStatus[b] ELSE "OPEN"]

Sale == INSTANCE SeatSale WITH outcome <- Outcome, owns <- bookingSeat

\* The engine implements the sale.
SaleRefined == Sale!SaleSpec

-----------------------------------------------------------------------------
(* What comments and documents of the repository say and the code does not do. *)

\* "returns existing RESERVED hold instead of allocating a second seat".
OneHoldPerBooking ==
  \A s, t \in Seats :
    /\ seatStatus[s] = "RESERVED" /\ seatStatus[t] = "RESERVED"
    /\ holdLive[s] /\ holdLive[t]
    /\ seatBooking[s] = seatBooking[t]
    => s = t

\* Two workers that allocated distinct seats for one booking do not both
\* confirm: confirm_booking's check of bookings.status protects against it.
OneSoldSeatPerBooking ==
  \A s, t \in Seats :
    /\ seatStatus[s] = "CONFIRMED" /\ seatStatus[t] = "CONFIRMED"
    /\ seatBooking[s] = seatBooking[t]
    => s = t

\* A booking POST /api/book gave up on has had nothing allocated.
RejectedBookingSoldNothing ==
  \A b \in Bookings : ingress[b] = "rejected" =>
    \A s \in Seats : ~(seatStatus[s] = "CONFIRMED" /\ seatBooking[s] = b)

\* Zero rows from confirm_booking mean that the hold expired: the payment that
\* is refunded is not the one a CONFIRMED booking rests on.
ConfirmedIsNotRefunded ==
  \A b \in Bookings : bookingStatus[b] = "CONFIRMED" => b \notin refunded

\* The 202 body is replayed until the worker overwrites it, never afterwards.
TerminalReplyIsKept ==
  [][\A b \in Bookings : cached[b] \in Terminal => cached'[b] \in Terminal]_vars

\* The webhook's clean-up is safe to run on a booking that is already terminal.
ConfirmedReplyIsKept ==
  [][\A b \in Bookings : cached[b] = "CONFIRMED" => cached'[b] # "FAILED"]_vars

\* No lost intent: an accepted booking becomes CONFIRMED, FAILED or EXPIRED, or
\* is in the DLQ.
AcceptedIsDecided ==
  \A b \in Bookings :
    ingress[b] = "accepted" ~> (bookingStatus[b] \in Terminal \/ b \in dlq)

\* Nobody is charged for a seat they did not get.
ChargeBuysSeatOrRefund ==
  \A b \in Bookings :
    payment[b] = "succeeded" ~> (bookingStatus[b] = "CONFIRMED" \/ b \in refunded)
=============================================================================
