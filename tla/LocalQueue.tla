------------------------------ MODULE LocalQueue ------------------------------
(*****************************************************************************)
(* Publishing with QSTASH_DEV_BYPASS=1: no broker, but one chain of          *)
(* promises per train inside the server process, each link a run of          *)
(* runWorkerJob.  The job is the worker's ("SAME logic"), so its statements  *)
(* are the actions of Reservation; what differs is around them: jobs of a    *)
(* train run one after the other, the attempt number is always 0, no         *)
(* answer is looked at, nothing is delivered again, and the chain is lost    *)
(* with the process.                                                         *)
(*                                                                           *)
(* Every call but getBookingById and commitIdempotencyResponse runs under    *)
(* an aggressive timeout and is called again when it fails: the job goes on, *)
(* or ends, while a call is still on its way to Postgres or open there, and  *)
(* the chain takes the next job.  Such calls are kept in late; they are the  *)
(* only way two jobs of a train overlap.  A late allocate_seat first locks   *)
(* its row and commits, or is rolled back, later: SKIP LOCKED passes over    *)
(* that row meanwhile.                                                       *)
(*****************************************************************************)
EXTENDS Reservation, Sequences

VARIABLES
  queue,      \* jobs chained behind the one that runs
  order,      \* bookings in the order they were published
  late        \* calls the code has stopped waiting for

queueVars == <<queue, order, late>>
localVars == <<vars, queueVars>>

\* The call a statement belongs to, for calls that run under a policy.
Call == [findHold |-> "allocate", takeSeat |-> "allocate",
         lookup |-> "charge", insert |-> "charge",
         confirm |-> "confirm", seal |-> "confirm",
         release |-> "release", unseat |-> "fail", fail |-> "fail"]

\* The first statement of each.
First == [allocate |-> "findHold", charge |-> "lookup", confirm |-> "confirm",
          release |-> "release", fail |-> "unseat"]

Calls == {Call[s] : s \in DOMAIN Call}

\* The call worker w is in, once nobody waits for it any more; confirm_booking is
\* called with the seat that was allocated.
CallOf(w) ==
  [call |-> Call[pc[w]], job |-> job[w], began |-> began[w],
   rows |-> IF Call[pc[w]] = "confirm" THEN rows[w] ELSE {}]

LocalTypeOK ==
  /\ TypeOK
  /\ phase = [b \in Bookings |-> "unpublished"]
  /\ \A w \in Workers : retried[w] = 0
  /\ \A v, w \in Workers : pc[v] # "idle" /\ pc[w] # "idle" => v = w
  /\ queue \in Seq(Bookings)
  /\ order \in Seq(Bookings)
  /\ late \subseteq [call : Calls, job : Bookings, rows : SUBSET Seats, began : BOOLEAN]

LocalInit == Init /\ queue = <<>> /\ order = <<>> /\ late = {}

-----------------------------------------------------------------------------
(* publishAllocateJob, called by POST /api/book. *)

\* The newest job is chained in front of the others.
BugDispatch(b) ==
  /\ Ingress(b, "created", "published")
  /\ queue' = <<b>> \o queue
  /\ order' = Append(order, b)
  /\ UNCHANGED <<storeVars, transportVars, cached, late>>

Dispatch(b) ==
  /\ Ingress(b, "created", "published")
  /\ queue' = Append(queue, b)
  /\ order' = Append(order, b)
  /\ UNCHANGED <<storeVars, transportVars, cached, late>>

\* APP_URL is missing: thrown before anything is chained.
DispatchFails(b) ==
  /\ Ingress(b, "created", "unpublished")
  /\ UNCHANGED <<storeVars, transportVars, cached, queueVars>>

PostStep(b) ==
  /\ CreateBooking(b) \/ MarkUnpublished(b) \/ CacheRejected(b) \/ CacheAccepted(b)
       \/ IngressDies(b)
  /\ UNCHANGED queueVars

-----------------------------------------------------------------------------
(* The chain. *)

\* runWorkerJob is called at once instead of behind tail.
BugTakeJob(w) ==
  /\ pc[w] = "idle" /\ queue # <<>>
  /\ pc' = [pc EXCEPT ![w] = "booking"]
  /\ job' = [job EXCEPT ![w] = Head(queue)]
  /\ queue' = Tail(queue)
  /\ UNCHANGED <<storeVars, transportVars, ingressVars, auditVars,
                 retried, rows, began, body, order, late>>

\* tail.then: the job before this one has settled.
TakeJob(w) ==
  /\ \A v \in Workers : pc[v] = "idle"
  /\ queue # <<>>
  /\ pc' = [pc EXCEPT ![w] = "booking"]
  /\ job' = [job EXCEPT ![w] = Head(queue)]
  /\ queue' = Tail(queue)
  /\ UNCHANGED <<storeVars, transportVars, ingressVars, auditVars,
                 retried, rows, began, body, order, late>>

(* runWorkerJob, block by block. *)

CheckBooking(w) == SeesPending(w) \/ AlreadyTerminal(w)

\* Rows a late allocate_seat holds FOR UPDATE.
Locked == UNION {c.rows : c \in {d \in late : d.call = "allocate"}}

AllocateJob(w) ==
  \/ ReuseHold(w) \/ NoHoldYet(w)
  \/ AllocateSeat(w) /\ rows'[w] \cap Locked = {}
  \/ SoldOut(w) /\ Free \subseteq Locked

ChargeJob(w) ==
  LookupPayment(w) \/ InsertPayment(w) \/ PaymentUnavailable(w) \/ ReleaseForRetry(w)

ConfirmJob(w) ==
  ConfirmReads(w) \/ Confirm(w) \/ ConfirmNothing(w) \/ Refund(w)

FinishJob(w) == Unseat(w) \/ FailBooking(w) \/ CacheAndRespond(w)

JobStep(w) ==
  /\ CheckBooking(w) \/ AllocateJob(w) \/ ChargeJob(w) \/ ConfirmJob(w) \/ FinishJob(w)
  /\ UNCHANGED queueVars

\* A 'transient' outcome, a fault maybeInjectChaos throws in or an exception
\* the chain catches: the chain goes on and the job is not run again.
JobFails(w) == Throws(w) /\ UNCHANGED queueVars

\* TimeoutStrategy.Cooperative: the code waits for the call all the same.
BugCallTimesOut(w) ==
  /\ pc[w] \in DOMAIN Call
  /\ late' = late \cup {CallOf(w)}
  /\ UNCHANGED <<vars, queue, order>>

\* The policy's timeout: the same consequence in the code, but the call is
\* still under way.
CallTimesOut(w) ==
  /\ pc[w] \in DOMAIN Call
  /\ Throws(w) \/ PaymentUnavailable(w)
  /\ late' = late \cup {CallOf(w)}
  /\ UNCHANGED <<queue, order>>

\* The call fails here, its connection being lost, and may yet succeed there;
\* the policy calls the function again, from its first statement.
CallAgain(w) ==
  /\ pc[w] \in DOMAIN Call
  /\ pc' = [pc EXCEPT ![w] = First[Call[pc[w]]]]
  /\ late' = late \cup {CallOf(w)}
  /\ UNCHANGED <<storeVars, transportVars, ingressVars, auditVars,
                 job, retried, rows, began, body, queue, order>>

-----------------------------------------------------------------------------
(* A late call reaches Postgres.  All but allocate_seat are one step here:   *)
(* what comes between their statements finds their rows locked.              *)

\* allocate_seat up to its row lock: no hold of this booking, and an AVAILABLE
\* seat nobody else has locked.
LateLocks(c) ==
  /\ c.call = "allocate" /\ c.rows = {}
  /\ LiveHolds(c.job) = {}
  /\ \E s \in Free \ Locked : late' = (late \ {c}) \cup {[c EXCEPT !.rows = {s}]}
  /\ UNCHANGED <<vars, queue, order>>

\* allocate_seat, the UPDATE of the locked row and the commit.
LateAllocate(c) ==
  /\ c.call = "allocate"
  /\ \E s \in c.rows \cap Free : Reserve(s, c.job)
  /\ UNCHANGED <<bookingVars, payment>>

LateCharge(c) ==
  /\ c.call = "charge"
  /\ payment[c.job] = "none"
  /\ \E r \in PaymentStates \ {"none"} : payment' = [payment EXCEPT ![c.job] = r]
  /\ UNCHANGED <<seatVars, bookingVars>>

LateConfirm(c) ==
  /\ c.call = "confirm"
  /\ bookingStatus[c.job] = "PENDING"
  /\ \E s \in c.rows \cap HeldBy(c.job) :
       (holdLive[s] \/ c.began) /\ SealSeat(s) /\ ConfirmBookingRow(c.job, s)
  /\ UNCHANGED payment

LateRelease(c) == c.call = "release" /\ release_hold_retryable(c.job)

LateFail(c) ==
  /\ c.call = "fail"
  /\ Vacate(HeldBy(c.job))
  /\ FailIfPending(c.job)
  /\ UNCHANGED payment

LateLands(c) ==
  /\ LateAllocate(c) \/ LateCharge(c) \/ LateConfirm(c) \/ LateRelease(c) \/ LateFail(c)
  /\ late' = late \ {c}
  /\ UNCHANGED <<transportVars, ingressVars, auditVars, workerVars, queue, order>>

\* It never arrives, finds nothing to do, or is rolled back.
LateVanishes(c) ==
  /\ late' = late \ {c}
  /\ UNCHANGED <<vars, queue, order>>

-----------------------------------------------------------------------------
\* The process ends: the chain, the running job and the POSTs it serves are
\* gone; calls that are under way may still arrive.
ServerRestarts ==
  /\ queue # <<>> \/ \E w \in Workers : pc[w] # "idle"
  /\ queue' = <<>>
  /\ ingress' = [b \in Bookings |->
       IF ingress[b] \in {"created", "published", "unpublished", "tombstone"}
         THEN "dead" ELSE ingress[b]]
  /\ pc' = [w \in Workers |-> "idle"]
  /\ job' = [w \in Workers |-> NoBooking]
  /\ rows' = [w \in Workers |-> {}]
  /\ began' = [w \in Workers |-> FALSE]
  /\ body' = [w \in Workers |-> "none"]
  /\ UNCHANGED <<storeVars, transportVars, cached, auditVars, retried, order, late>>

LocalNext ==
  \/ \E b \in Bookings : PostStep(b) \/ Dispatch(b) \/ DispatchFails(b)
  \/ \E w \in Workers : TakeJob(w) \/ JobStep(w) \/ JobFails(w) \/ CallTimesOut(w) \/ CallAgain(w)
  \/ \E c \in late : LateLocks(c) \/ LateLands(c) \/ LateVanishes(c)
  \/ (\E s \in Seats : Expire(s)) /\ UNCHANGED queueVars
  \/ Sweep /\ UNCHANGED queueVars
  \/ ServerRestarts

LocalSpec == LocalInit /\ [][LocalNext]_localVars

\* The event loop takes the next job, a call under a policy ends by its timeout
\* at the latest, and the two calls without a policy return or throw.  Nothing
\* is assumed of Postgres, of the sweeper (which no schedule runs here) or of
\* POSTs.
LocalFairness ==
  /\ WF_localVars(\E w \in Workers : TakeJob(w))
  /\ \A w \in Workers :
       /\ WF_localVars(CallTimesOut(w))
       /\ WF_localVars(pc[w] \notin DOMAIN Call /\ (JobStep(w) \/ JobFails(w)))

LocalFairSpec == LocalSpec /\ LocalFairness

-----------------------------------------------------------------------------
(* What must hold. *)

Waiting == {queue[i] : i \in 1 .. Len(queue)}

Place(b) == CHOOSE i \in 1 .. Len(order) : order[i] = b

\* b has seat s, or an open transaction that has locked it for b.
HasOrLocks(b, s) ==
  \/ seatBooking[s] = b
  \/ \E c \in late : c.call = "allocate" /\ c.job = b /\ s \in c.rows

\* First come, first served: a booking is turned down as sold out only while every
\* seat is with, or locked for, a booking published no later than it, although
\* calls of earlier jobs land late, a call of its own is repeated and the
\* process may restart in between.  A locked seat may become free again
\* afterwards (ZeroRowsMeanNoSeat does not hold), but nobody published later
\* can be the one who locked it.
SoldOutInOrder ==
  [][\A w \in Workers :
       (body'[w] = "sold_out" /\ body[w] # "sold_out") =>
         \A s \in Seats : \E i \in 1 .. Place(job[w]) : HasOrLocks(order[i], s)]_localVars

\* The bypass implements the sale, too, late calls included.
LocalSaleRefined == Sale!SaleSpec

\* A failing or hanging job does not hold up the ones behind it: a job that waits
\* is taken, or lost with the process.
JobsAreTaken == \A b \in Bookings : b \in Waiting ~> b \notin Waiting

\* "0 rows if no seats available": what the caller makes of them, the train is
\* sold out.  It need not be: the row that was passed over may be rolled back.
ZeroRowsMeanNoSeat ==
  [][\A w \in Workers :
       (body'[w] = "sold_out" /\ body[w] # "sold_out") => Free = {}]_localVars

\* "This mirrors QStash Flow Control": a booking that was published is settled.
\* It is not: a transient outcome is the end of the job.
LocalJobIsSettled ==
  \A b \in Bookings :
    b \in Waiting ~> (bookingStatus[b] \in Terminal \/ b \in refunded)
=============================================================================
