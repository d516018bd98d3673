------------------------------ MODULE DemoReset ------------------------------
(****************************************************************************)
(* POST /api/admin/reset at work on the tables of the reservation engine    *)
(* while invocations are running.                                           *)
(*                                                                          *)
(* Reset is five statements, each a transaction of its own:                 *)
(*                                                                          *)
(*   idle -> bookings -> payments -> keys -> dlq -> done                    *)
(*              |           \---------------------> stopped                 *)
(*              \-> half                                                    *)
(*                                                                          *)
(* half: the seats are free and the bookings still there.  A deleted row of *)
(* bookings is ABSENT, like one that was never inserted.                    *)
(*                                                                          *)
(* An idempotency key bears the name of the first booking made with it, and *)
(* cached[k] is the body in the row of key k.  When that row was deleted a  *)
(* client may POST the key again: a new row for a new booking, which what   *)
(* is left of the old booking finds.                                        *)
(****************************************************************************)
EXTENDS Reservation

VARIABLES
  reset,          \* the statement reset is about to execute, or how it ended
  key,            \* bookings.idempotency_key
  forgotten,      \* keys whose row was deleted
  kept            \* keys whose row was too old for reset to delete

keyVars == <<key, forgotten, kept>>
resetVars == <<reset, keyVars>>
demoVars == <<vars, resetVars>>

ResetStates == {"idle", "bookings", "payments", "keys", "dlq", "done", "half", "stopped"}

ResetTypeOK ==
  /\ TypeOK
  /\ reset \in ResetStates
  /\ key \in [Bookings -> Bookings]
  /\ forgotten \subseteq Bookings
  /\ kept \subseteq Bookings

-----------------------------------------------------------------------------
(* Reset. *)

ResetStep(from, to) ==
  /\ reset = from
  /\ reset' = to
  /\ UNCHANGED <<transportVars, ingress, refunded, workerVars>>

ResetSeats ==
  /\ reset \in {"idle", "done", "half", "stopped"}
  /\ reset' = "bookings"
  /\ Vacate(Seats)
  /\ UNCHANGED <<bookingVars, payment, transportVars, ingressVars, auditVars, workerVars, keyVars>>

\* seats.booking_id is ON DELETE SET NULL, which the CHECK on seats refuses for
\* a seat that is not AVAILABLE.
Referenced == {s \in Seats : seatBooking[s] # NoBooking}

DeleteBookings ==
  /\ ResetStep("bookings", "payments")
  /\ Referenced = {}
  /\ bookingStatus' = [b \in Bookings |-> "ABSENT"]
  /\ bookingSeat' = [b \in Bookings |-> NoSeat]
  /\ UNCHANGED <<seatVars, payment, cached, dlq, keyVars>>

\* The statement throws and the request ends with an error.
DeleteBookingsFails ==
  /\ ResetStep("bookings", "half")
  /\ Referenced # {}
  /\ UNCHANGED <<storeVars, cached, dlq, keyVars>>

\* bookings.payment_id of a CONFIRMED booking refuses the delete.
DeletePayments ==
  /\ \/ /\ ResetStep("payments", "keys")
        /\ \A b \in Bookings : bookingStatus[b] # "CONFIRMED"
        /\ payment' = [b \in Bookings |-> "none"]
     \/ /\ ResetStep("payments", "stopped")
        /\ \E b \in Bookings : bookingStatus[b] = "CONFIRMED"
        /\ UNCHANGED payment
  /\ UNCHANGED <<seatVars, bookingVars, cached, dlq, keyVars>>

\* Rows of the last hour: any of them may be older.  A POST still before its
\* INSERT may or may not have claimed its key.
DeleteKeys ==
  /\ ResetStep("keys", "dlq")
  /\ \E recent \in SUBSET {key[b] : b \in Bookings} :
       /\ forgotten' = forgotten \cup recent
       /\ cached' = [k \in Bookings |-> IF k \in recent THEN "none" ELSE cached[k]]
       /\ kept' = (kept \cup {key[b] : b \in {c \in Bookings : ingress[c] # "idle"}}) \ forgotten'
  /\ UNCHANGED <<storeVars, dlq, key>>

\* The rows an operator has marked as resolved stay.
DeleteDlq ==
  /\ ResetStep("dlq", "done")
  /\ \E resolved \in SUBSET dlq : dlq' = resolved
  /\ UNCHANGED <<storeVars, cached, keyVars>>

\* The request dies or a statement throws for a reason of its own.
ResetDies ==
  /\ \/ ResetStep("bookings", "half")
     \/ \E at \in {"payments", "keys", "dlq"} : ResetStep(at, "stopped")
  /\ UNCHANGED <<storeVars, cached, dlq, keyVars>>

ResetNext ==
  \/ ResetSeats \/ DeleteBookings \/ DeleteBookingsFails \/ DeletePayments
  \/ DeleteKeys \/ DeleteDlq \/ ResetDies

-----------------------------------------------------------------------------
(* What the engine does where a row it relies on was deleted. *)

Deleted(w) == bookingStatus[job[w]] = "ABSENT"

\* booking row does not exist: 489
JobNotFound(w) ==
  /\ pc[w] = "booking"
  /\ Deleted(w)
  /\ Respond(w, 489)
  /\ UNCHANGED <<storeVars, ingressVars, auditVars>>

\* The row of b's key is not the one b was made with.
Elsewhere(b) == key[b] # b \/ key[b] \in forgotten

\* write_idempotency_response inserts the row it does not find.
BugWriteReply(b, what) == cached' = [cached EXCEPT ![key[b]] = what]

\* write_idempotency_response is an UPDATE by key: it overwrites what it finds,
\* whosever it is, and when it finds no row it returns.
WriteReply(b, what) ==
  cached' = IF key[b] \in forgotten THEN cached ELSE [cached EXCEPT ![key[b]] = what]

CacheElsewhere(w) ==
  /\ pc[w] = "cache"
  /\ Elsewhere(job[w])
  /\ WriteReply(job[w], StatusOf(body[w]))
  /\ Respond(w, IF body[w] \in {"payment_failed", "worker_error"} THEN 489 ELSE 200)
  /\ UNCHANGED <<storeVars, ingress, auditVars>>

PostCachesElsewhere(b) ==
  /\ Elsewhere(b)
  /\ \/ Ingress(b, "published", "accepted") /\ WriteReply(b, "ACCEPTED")
     \/ /\ Ingress(b, "tombstone", "rejected")
        /\ WriteReply(b, "REJECTED") \/ UNCHANGED cached
  /\ UNCHANGED <<storeVars, transportVars>>

\* A key whose row was deleted is posted again, for the booking c.
PostAgain(b, c) ==
  /\ key[b] \in forgotten
  /\ ingress[c] = "idle" /\ c \notin forgotten
  /\ \A a \in Bookings : key[a] = c <=> a = c
  /\ key' = [key EXCEPT ![c] = key[b]]
  /\ forgotten' = forgotten \ {key[b]}
  /\ UNCHANGED <<vars, reset, kept>>

\* UNIQUE (idempotency_key) of bookings.
KeyIsTaken(b) == \E a \in Bookings \ {b} : key[a] = key[b] /\ bookingStatus[a] # "ABSENT"

\* payments has one row per key: the bookings of a key that was posted again find
\* each other's charge (here, some time after it was made).
SharePayment(a, b) ==
  /\ a # b /\ key[a] = key[b]
  /\ payment[a] # "none" /\ payment[b] = "none"
  /\ payment' = [payment EXCEPT ![b] = payment[a]]
  /\ UNCHANGED <<seatVars, bookingVars, transportVars, ingressVars, auditVars, workerVars>>

\* bookings.payment_id has no foreign key.
BugPaymentIsGone(w) == FALSE /\ pc[w] = "seal"

\* The UPDATE that would set bookings.payment_id.  (A payment that was deleted
\* and charged again in the meantime counts as the one the invocation holds.)
PaymentIsGone(w) ==
  /\ pc[w] = "seal"
  /\ payment[job[w]] # "succeeded"
  /\ bookingStatus[job[w]] = "PENDING"
  /\ \E s \in Seats : CanSeal(w, s)

\* seats.booking_id has no foreign key.
BugRefused(w) ==
  \/ pc[w] = "booking" /\ Deleted(w)
  \/ PaymentIsGone(w)
  \/ pc[w] = "cache" /\ Elsewhere(job[w])

\* Statements the deletes have taken the ground from: the first and the last
\* are replaced by the actions above; a hold for a deleted booking (a step to
\* lookup) and a confirmation on a deleted payment violate a foreign key, so that
\* the invocation can only throw.
Refused(w) ==
  \/ pc[w] = "booking" /\ Deleted(w)
  \/ pc[w] = "takeSeat" /\ Deleted(w) /\ pc'[w] = "lookup"
  \/ PaymentIsGone(w)
  \/ pc[w] = "cache" /\ Elsewhere(job[w])

PostNext(b) ==
  \/ CreateBooking(b) /\ ~KeyIsTaken(b)
  \/ PublishAllocateJob(b) \/ PublishFails(b)
  \/ MarkUnpublished(b) \/ IngressDies(b)
  \/ ~Elsewhere(b) /\ (CacheRejected(b) \/ CacheAccepted(b))

EngineNext ==
  \/ \E b \in Bookings : PostNext(b) \/ BrokerGivesUp(b)
  \/ \E w \in Workers, b \in Bookings : Deliver(w, b) \/ DeliverCallback(w, b)
  \/ \E w \in Workers : WorkerStep(w) /\ ~Refused(w)
  \/ \E w \in Workers : Throws(w) \/ Dies(w) \/ JobNotFound(w) \/ CacheElsewhere(w)
  \/ \E s \in Seats : Expire(s)
  \/ \E b \in Bookings : PostCachesElsewhere(b)
  \/ \E a, b \in Bookings : SharePayment(a, b)
  \/ Sweep

DemoNext ==
  \/ EngineNext /\ UNCHANGED resetVars
  \/ \E b, c \in Bookings : PostAgain(b, c)
  \/ ResetNext

ResetInit ==
  /\ Init
  /\ reset = "idle"
  /\ key = [b \in Bookings |-> b]
  /\ forgotten = {}
  /\ kept = {}

ResetSpec == ResetInit /\ [][DemoNext]_demoVars

-----------------------------------------------------------------------------
(* What must hold. *)

\* Bookings and seats disagree only while a reset has freed the seats and not
\* yet deleted the bookings, or has ended there; a reset that gets past that
\* point, or the next one, leaves a sale that is consistent again, whatever
\* invocations were in the middle of when their rows went away.
ResetKeepsSaleConsistent ==
  reset \notin {"bookings", "half"} =>
    ConfirmedHasSeat /\ PaidBeforeConfirmed

\* The key is b's alone: nobody has posted it again.
Unshared(b) == \A a \in Bookings : key[a] = b <=> a = b

\* The broker is done with b or repeats itself.  (Reset deletes rows of dlq_jobs.)
Disturbed(b) == attempt[b] > 0 \/ phase[b] \in {"failed", "reporting", "reported"}

\* A completed reset is not undone by an invocation that was about to answer: for
\* a key whose row reset has deleted, and for one that came after it, a replay
\* tells nothing of a booking that is gone and the truth about one that is not.
\* That leaves out the rows older than an hour, which reset keeps, and the keys
\* that were posted again, whose row is overwritten by what is left of the old
\* booking (AllRepliesAreReal does not hold).
ResetKeysStayDeleted ==
  reset \in {"idle", "dlq", "done"} =>
    \A b \in Bookings : Unshared(b) /\ b \notin kept => OutcomeIsReal(b, Disturbed(b))

\* A job whose booking was deleted takes nothing: no seat and no booking changes
\* under the hands of the invocation that serves it.
StaleJobTakesNothing ==
  [][\A w \in Workers :
       /\ pc[w] # "idle" /\ Deleted(w)
       /\ pc'[w] # pc[w]
       => UNCHANGED <<seatVars, bookingVars>>]_demoVars

\* "nuke demo state between runs": a completed reset leaves no reply of a booking
\* that is gone, whatever the age of its key and whoever uses it next.  It leaves
\* the keys older than an hour.
AllRepliesAreReal ==
  reset \in {"idle", "dlq", "done"} =>
    \A b \in Bookings : key[b] = b => OutcomeIsReal(b, Disturbed(b))

\* Zero duplicates, at all times: also after a reset that failed half-way.
NoDuplicateAllocation ==
  reset \in {"idle", "done", "half", "stopped"} =>
    \A b, c \in Bookings :
      /\ bookingStatus[b] = "CONFIRMED" /\ bookingStatus[c] = "CONFIRMED"
      /\ bookingSeat[b] = bookingSeat[c]
      => b = c
=============================================================================
