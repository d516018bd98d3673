--------------------------- MODULE LocalQueueProofs ---------------------------
(***************************************************************************)
(* The local bypass keeps what the engine promises although calls it has   *)
(* stopped waiting for still land, and serves a train first come, first    *)
(* served: for any number of seats, bookings and workers.                  *)
(***************************************************************************)
EXTENDS LocalQueue, ReservationProofs

\* How many of the published jobs the chain has taken, or lost in a restart.
Taken == Len(order) - Len(queue)

\* The chain is the tail of what was published, each booking once; the job that
\* runs is the last one taken.
InTurn ==
  /\ Len(queue) <= Len(order)
  /\ \A i \in 1 .. Len(queue) : queue[i] = order[Taken + i]
  /\ \A i, j \in 1 .. Len(order) : order[i] = order[j] => i = j
  /\ \A i \in 1 .. Len(order) : ingress[order[i]] \notin {"idle", "created"}
  /\ \A w \in Workers : pc[w] # "idle" => Taken \in 1 .. Len(order) /\ job[w] = order[Taken]

WasTaken(b) == \E i \in 1 .. Taken : order[i] = b

\* Only jobs that were taken have seats or late calls.
Seated ==
  /\ \A s \in Seats : seatStatus[s] # "AVAILABLE" => seatBooking[s] # NoBooking
  /\ \A s \in Seats : seatBooking[s] # NoBooking => WasTaken(seatBooking[s])
  /\ \A c \in late : WasTaken(c.job)

\* A late confirm_booking was called after a charge that succeeded.
LatePaid == \A c \in late : c.call = "confirm" => payment[c.job] = "succeeded"

LocalInv == LocalTypeOK /\ Safe /\ LatePaid /\ InTurn /\ Seated

-----------------------------------------------------------------------------
(* Steps of the engine under the chain. *)

\* No worker starts, and none turns to another job.
WorkersGoOn ==
  /\ \A v \in Workers : retried'[v] = 0
  /\ \A v \in Workers : pc'[v] # "idle" => pc[v] # "idle" /\ job'[v] = job[v]

\* No POST goes back behind its publish.
PostsGoOn ==
  \A b \in Bookings : ingress'[b] \in {"idle", "created"} => ingress[b] \in {"idle", "created"}

\* A seat stays with its booking, is freed, or goes to a running job.
SeatsMove ==
  \A s \in Seats :
    \/ /\ seatBooking'[s] = seatBooking[s]
       /\ seatStatus'[s] # "AVAILABLE" => seatStatus[s] # "AVAILABLE"
    \/ seatStatus'[s] = "AVAILABLE" /\ seatBooking'[s] = NoBooking
    \/ \E w \in Workers : pc[w] # "idle" /\ seatBooking'[s] = job[w]

\* The engine makes a step and the chain does not, except that it may have
\* stopped waiting for the call of that step.
EngineStep ==
  /\ [Next]_vars
  /\ UNCHANGED <<phase, attempt, queue, order>>
  /\ WorkersGoOn /\ PostsGoOn /\ SeatsMove
  /\ \/ late' = late
     \/ \E w \in Workers :
          /\ pc[w] \in DOMAIN Call /\ pc[w] # "idle"
          /\ late' = late \cup {CallOf(w)}

\* Nothing was published to a broker, so no answer reaches one.
LEMMA NoBroker ==
  ASSUME LocalTypeOK, BusyHasJob, NEW w \in Workers, pc[w] # "idle",
         NEW code, Respond(w, code)
  PROVE  /\ UNCHANGED <<phase, attempt>>
         /\ WorkersGoOn
         /\ pc'[w] = "idle"
<1> USE DEF LocalTypeOK, TypeOK, TransportTypeOK, WorkerTypeOK
<1>1. job[w] \in Bookings
  BY DEF BusyHasJob
<1>2. UNCHANGED transportVars
  BY <1>1 DEF Respond, AnswerCallback, Answer
<1>3. Finish(w)
  BY DEF Respond
<1> QED
  BY <1>2, <1>3 DEF Finish, WorkersGoOn, transportVars

\* Seats that stay, and seats that are freed, move.
LEMMA SeatsStay ==
  /\ UNCHANGED <<seatStatus, seatBooking>> => SeatsMove
  /\ \A S \in SUBSET Seats : Vacate(S) => SeatsMove
BY DEF SeatsMove, Vacate

\* One statement of the job.
LEMMA JobSteps ==
  ASSUME LocalTypeOK, Safe, NEW w \in Workers, WorkerStep(w),
         ~InsertDlqJob(w), queue' = queue, order' = order
  PROVE  /\ UNCHANGED <<phase, attempt, ingress>>
         /\ WorkersGoOn /\ SeatsMove
<1> USE DEF LocalTypeOK, TypeOK, StoreTypeOK, WorkerTypeOK, Safe, Typed
<1>1. CASE AlreadyTerminal(w) \/ CacheAndRespond(w)
  <2>1. pc[w] # "idle" /\ (\E code : Respond(w, code))
        /\ UNCHANGED <<ingress, seatStatus, seatBooking>>
    BY <1>1 DEF AlreadyTerminal, CacheAndRespond, storeVars, ingressVars
  <2> QED
    BY <2>1, NoBroker, SeatsStay
<1>2. CASE ReleaseForRetry(w)
  <2>1. pc[w] # "idle" /\ (\E code : Respond(w, code)) /\ UNCHANGED ingress
        /\ Vacate(HeldBy(job[w]))
    BY <1>2 DEF ReleaseForRetry, release_hold_retryable, ingressVars
  <2>2. HeldBy(job[w]) \in SUBSET Seats
    BY DEF HeldBy
  <2> QED
    BY <2>1, <2>2, NoBroker, SeatsStay
<1>3. ASSUME NEW from \in Steps \ {"idle"}, NEW to \in Steps, Step(w, from, to)
      PROVE  UNCHANGED <<phase, attempt, ingress>> /\ WorkersGoOn
  BY <1>3 DEF Step, WorkersGoOn, transportVars, ingressVars
<1>4. CASE SeesPending(w) \/ ReuseHold(w) \/ NoHoldYet(w) \/ SoldOut(w) \/ LookupPayment(w)
        \/ PaymentUnavailable(w) \/ ConfirmReads(w) \/ ConfirmNothing(w) \/ Refund(w)
        \/ Unseat(w)
  <2>1. UNCHANGED <<seatStatus, seatBooking>>
    BY <1>4
    DEF SeesPending, ReuseHold, NoHoldYet, SoldOut, GoTerminal, LookupPayment,
        PaymentUnavailable, ConfirmReads, ConfirmNothing, Refund, Unseat, storeVars
  <2>2. \E from \in Steps \ {"idle"}, to \in Steps : Step(w, from, to)
    BY <1>4
    DEF SeesPending, ReuseHold, NoHoldYet, SoldOut, LookupPayment,
        PaymentUnavailable, ConfirmReads, ConfirmNothing, Refund, Unseat, Steps
  <2> QED
    BY <1>3, <2>1, <2>2, SeatsStay
<1>5. CASE AllocateSeat(w)
  <2>1. UNCHANGED <<phase, attempt, ingress>> /\ WorkersGoOn
    BY <1>3, <1>5 DEF AllocateSeat, Steps
  <2>2. pc[w] = "takeSeat"
    BY <1>5 DEF AllocateSeat, Step
  <2>3. SeatsMove
    BY <1>5, <2>2 DEF AllocateSeat, Free, Reserve, SeatsMove
  <2> QED
    BY <2>1, <2>3
<1>6. CASE InsertPayment(w)
  <2>1. UNCHANGED <<phase, attempt, ingress>> /\ WorkersGoOn
    BY <1>3, <1>6 DEF InsertPayment, Steps
  <2> QED
    BY <1>6, <2>1, SeatsStay DEF InsertPayment, seatVars
<1>7. CASE Confirm(w) \/ ConfirmSeatOnly(w)
  <2>1. UNCHANGED <<phase, attempt, ingress>> /\ WorkersGoOn
    BY <1>3, <1>7 DEF Confirm, ConfirmSeatOnly, Steps
  <2>2. SeatsMove
    BY <1>7 DEF Confirm, ConfirmSeatOnly, CanSeal, HeldBy, SealSeat, SeatsMove
  <2> QED
    BY <2>1, <2>2
<1>8. CASE FailBooking(w)
  <2>1. UNCHANGED <<phase, attempt, ingress>> /\ WorkersGoOn
    BY <1>3, <1>8 DEF FailBooking, Steps
  <2>2. rows[w] \cap HeldBy(job[w]) \in SUBSET Seats
    BY DEF HeldBy
  <2> QED
    BY <1>8, <2>1, <2>2, SeatsStay DEF FailBooking
<1> QED
  BY <1>1, <1>2, <1>4, <1>5, <1>6, <1>7, <1>8 DEF WorkerStep

\* A job that throws ends.
LEMMA ThrowSteps ==
  ASSUME LocalTypeOK, Safe, NEW w \in Workers, Throws(w), queue' = queue, order' = order
  PROVE  /\ UNCHANGED <<phase, attempt, ingress>>
         /\ WorkersGoOn /\ SeatsMove
         /\ pc'[w] = "idle"
<1>1. pc[w] # "idle" /\ (\E code : Respond(w, code))
      /\ UNCHANGED <<ingress, seatStatus, seatBooking>>
  BY DEF Throws, storeVars, ingressVars
<1> QED
  BY <1>1, NoBroker, SeatsStay DEF Safe, Typed

\* What the process does to the engine while no job is taken or published and no
\* late call lands is a step of the engine.
LEMMA EngineSteps ==
  ASSUME LocalTypeOK, Safe
  PROVE  /\ \A b \in Bookings : PostStep(b) \/ DispatchFails(b) => EngineStep
         /\ \A w \in Workers : JobStep(w) \/ JobFails(w) \/ CallTimesOut(w) => EngineStep
         /\ \A s \in Seats : Expire(s) /\ UNCHANGED queueVars => EngineStep
         /\ Sweep /\ UNCHANGED queueVars => EngineStep
<1> USE DEF LocalTypeOK, WorkerTypeOK, TypeOK, queueVars
<1>0. ASSUME UNCHANGED workerVars PROVE WorkersGoOn
  BY <1>0 DEF WorkersGoOn, workerVars
<1>1. ASSUME NEW b \in Bookings, PostStep(b) \/ DispatchFails(b) PROVE EngineStep
  <2>1. UNCHANGED <<phase, attempt, queue, order, late, seatStatus, seatBooking>>
        /\ UNCHANGED workerVars
    BY <1>1
    DEF PostStep, DispatchFails, CreateBooking, MarkUnpublished, CacheRejected, CacheAccepted,
        IngressDies, Ingress, transportVars, storeVars, seatVars
  <2>2. PostsGoOn
    BY <1>1
    DEF PostStep, DispatchFails, CreateBooking, MarkUnpublished, CacheRejected, CacheAccepted,
        IngressDies, Ingress, PostsGoOn, IngressTypeOK
  <2>3. IngressNext(b)
    BY <1>1 DEF PostStep, DispatchFails, IngressNext, PublishFails
  <2> QED
    BY <1>0, <2>1, <2>2, <2>3, SeatsStay DEF EngineStep, Next
<1>2. ASSUME NEW w \in Workers, JobStep(w) PROVE EngineStep
  <2>1. WorkerStep(w) /\ ~InsertDlqJob(w) /\ queue' = queue /\ order' = order /\ late' = late
    BY <1>2
    DEF JobStep, CheckBooking, AllocateJob, ChargeJob, ConfirmJob, FinishJob, WorkerStep,
        InsertDlqJob, Step, SeesPending, AlreadyTerminal, ReuseHold, NoHoldYet, AllocateSeat,
        SoldOut, LookupPayment, InsertPayment, PaymentUnavailable, ReleaseForRetry,
        ConfirmReads, Confirm, ConfirmNothing, Refund, Unseat, FailBooking, CacheAndRespond
  <2> QED
    BY <2>1, JobSteps DEF EngineStep, PostsGoOn, Next
<1>3. ASSUME NEW w \in Workers, Throws(w), queue' = queue, order' = order
      PROVE  /\ [Next]_vars /\ UNCHANGED <<phase, attempt, queue, order>>
             /\ WorkersGoOn /\ PostsGoOn /\ SeatsMove
             /\ pc[w] # "idle"
  BY <1>3, ThrowSteps DEF PostsGoOn, Next, Throws
<1>4. ASSUME NEW w \in Workers, JobFails(w) PROVE EngineStep
  BY <1>3, <1>4 DEF JobFails, EngineStep
<1>5. ASSUME NEW w \in Workers, CallTimesOut(w) PROVE EngineStep
  <2>1. CASE Throws(w)
    BY <1>3, <1>5, <2>1 DEF CallTimesOut, EngineStep
  <2>2. CASE PaymentUnavailable(w)
    <3>1. ~InsertDlqJob(w) /\ WorkerStep(w) /\ pc[w] # "idle"
      BY <2>2 DEF PaymentUnavailable, InsertDlqJob, Step, WorkerStep
    <3>2. UNCHANGED <<phase, attempt, ingress, queue, order>> /\ WorkersGoOn /\ SeatsMove
      BY <1>5, <3>1, JobSteps DEF CallTimesOut
    <3> QED
      BY <1>5, <3>1, <3>2 DEF CallTimesOut, EngineStep, PostsGoOn, Next
  <2> QED
    BY <1>5, <2>1, <2>2 DEF CallTimesOut
<1>6. ASSUME NEW s \in Seats, Expire(s), UNCHANGED queueVars PROVE EngineStep
  BY <1>0, <1>6, SeatsStay
  DEF Expire, HoldExpires, EngineStep, PostsGoOn, Next, transportVars, ingressVars
<1>7. ASSUME Sweep, UNCHANGED queueVars PROVE EngineStep
  <2>1. SeatsMove
    BY <1>7, SeatsStay DEF Sweep, sweep_expired_holds, ExpiredHolds
  <2> QED
    BY <1>0, <1>7, <2>1 DEF Sweep, EngineStep, PostsGoOn, Next, transportVars, ingressVars
<1> QED
  BY <1>1, <1>2, <1>4, <1>5, <1>6, <1>7

-----------------------------------------------------------------------------
(* The invariant is kept. *)

\* A call is known by its first statement, and confirm_booking's two are not
\* shared.
LEMMA CallNames ==
  /\ \A p \in DOMAIN Call : Call[p] \in Calls
  /\ \A p \in DOMAIN Call : Call[p] = "confirm" => p \in {"confirm", "seal"}
  /\ \A k \in Calls : First[k] \in Steps /\ First[k] # "idle" /\ First[k] \notin {"seal", "insert"}
  /\ \A k \in Calls : First[k] = "confirm" => k = "confirm"
BY DEF Call, Calls, First, Steps

\* A call nobody waits for any more is one of a job that was taken, with its
\* charge behind it when it confirms.
LEMMA Abandoned ==
  ASSUME LocalTypeOK, Safe, LatePaid, InTurn, Seated,
         NEW w \in Workers, pc[w] \in DOMAIN Call, pc[w] # "idle",
         late' = late \cup {CallOf(w)},
         \A b \in Bookings : payment[b] = "succeeded" => payment'[b] = "succeeded"
  PROVE  /\ late' \subseteq [call : Calls, job : Bookings, rows : SUBSET Seats, began : BOOLEAN]
         /\ LatePaid'
         /\ \A c \in late' : WasTaken(c.job)
<1> USE DEF LocalTypeOK, TypeOK, WorkerTypeOK, Safe, Typed
<1>1. /\ job[w] \in Bookings /\ Call[pc[w]] \in Calls /\ WasTaken(job[w])
      /\ Call[pc[w]] = "confirm" => payment[job[w]] = "succeeded"
  BY CallNames DEF BusyHasJob, PaidWorkers, InTurn, WasTaken
<1>2. /\ CallOf(w) \in [call : Calls, job : Bookings, rows : SUBSET Seats, began : BOOLEAN]
      /\ CallOf(w).call = Call[pc[w]] /\ CallOf(w).job = job[w]
  BY <1>1 DEF CallOf
<1>3. LatePaid'
  BY <1>1, <1>2 DEF LatePaid
<1> QED
  BY <1>1, <1>2, <1>3 DEF Seated

\* By steps of the engine.
LEMMA EngineKeeps ==
  ASSUME LocalInv, EngineStep
  PROVE  LocalInv'
<1> USE DEF LocalInv, Safe, Typed, LocalTypeOK, TypeOK, WorkerTypeOK, StoreTypeOK
<1>1. Safe'
  BY SafeStep DEF EngineStep
<1>2. StoreKept
  BY NextKeeps DEF EngineStep
<1>3. ASSUME late' = late PROVE LocalTypeOK' /\ LatePaid'
  <2>1. LocalTypeOK'
    BY <1>1, <1>3 DEF EngineStep, WorkersGoOn
  <2>2. LatePaid'
    BY <1>2, <1>3 DEF LatePaid, StoreKept
  <2> QED
    BY <2>1, <2>2
<1>4. ASSUME NEW w \in Workers, pc[w] \in DOMAIN Call, pc[w] # "idle",
             late' = late \cup {CallOf(w)}
      PROVE  LocalTypeOK' /\ LatePaid' /\ \A c \in late' : WasTaken(c.job)
  <2>1. /\ late' \subseteq [call : Calls, job : Bookings, rows : SUBSET Seats, began : BOOLEAN]
        /\ LatePaid' /\ \A c \in late' : WasTaken(c.job)
    BY <1>2, <1>4, Abandoned DEF StoreKept
  <2>2. LocalTypeOK'
    BY <1>1, <2>1 DEF EngineStep, WorkersGoOn
  <2> QED
    BY <2>1, <2>2
<1>5. InTurn'
  <2>1. UNCHANGED <<queue, order>> /\ Taken' = Taken
    BY DEF EngineStep, Taken
  <2>2. \A i \in 1 .. Len(order) : order[i] \in Bookings
    OBVIOUS
  <2>3. \A i \in 1 .. Len(order) : ingress'[order[i]] \notin {"idle", "created"}
    BY <2>2 DEF EngineStep, PostsGoOn, InTurn
  <2>4. \A w \in Workers : pc'[w] # "idle" => Taken \in 1 .. Len(order) /\ job'[w] = order[Taken]
    BY DEF EngineStep, WorkersGoOn, InTurn
  <2> QED
    BY <2>1, <2>3, <2>4 DEF InTurn
<1>6. \A w \in Workers : pc[w] # "idle" => job[w] \in Bookings /\ WasTaken(job[w])
  BY DEF BusyHasJob, InTurn, WasTaken
<1>7. \A b : WasTaken(b)' <=> WasTaken(b)
  BY DEF EngineStep, WasTaken, Taken
<1>8. Seated'
  <2>1. ASSUME NEW s \in Seats
        PROVE  /\ seatStatus'[s] # "AVAILABLE" => seatBooking'[s] # NoBooking
               /\ seatBooking'[s] # NoBooking => WasTaken(seatBooking'[s])
    <3>1. CASE \E w \in Workers : pc[w] # "idle" /\ seatBooking'[s] = job[w]
      BY <1>6, <3>1, IdsAssumption
    <3>2. CASE /\ seatBooking'[s] = seatBooking[s]
               /\ seatStatus'[s] # "AVAILABLE" => seatStatus[s] # "AVAILABLE"
      BY <3>2 DEF Seated
    <3>3. CASE seatStatus'[s] = "AVAILABLE" /\ seatBooking'[s] = NoBooking
      BY <3>3
    <3> QED
      BY <3>1, <3>2, <3>3 DEF EngineStep, SeatsMove
  <2>2. \A c \in late' : WasTaken(c.job)
    BY <1>4 DEF EngineStep, Seated
  <2> QED
    BY <1>7, <2>1, <2>2 DEF Seated
<1> QED
  BY <1>1, <1>3, <1>4, <1>5, <1>8 DEF EngineStep

\* By a publish.
LEMMA DispatchKeeps ==
  ASSUME LocalInv, NEW b \in Bookings, Dispatch(b)
  PROVE  LocalInv'
<1> USE DEF LocalInv, LocalTypeOK, Safe, Typed, TypeOK
<1>1. /\ UNCHANGED storeVars /\ UNCHANGED transportVars /\ UNCHANGED workerVars
      /\ UNCHANGED <<cached, dlq, refunded, late>>
      /\ ingress[b] = "created" /\ ingress' = [ingress EXCEPT ![b] = "published"]
      /\ queue' = Append(queue, b) /\ order' = Append(order, b)
  BY DEF Dispatch, Ingress, auditVars
<1>2. LocalTypeOK'
  <2>1. StoreTypeOK' /\ TransportTypeOK' /\ WorkerTypeOK'
    BY <1>1 DEF storeVars, StoreTypeOK, transportVars, TransportTypeOK, workerVars, WorkerTypeOK
  <2>2. IngressTypeOK'
    BY <1>1 DEF IngressTypeOK, IngressStates
  <2> QED
    BY <1>1, <2>1, <2>2 DEF transportVars, workerVars
<1>3. Safe' /\ LatePaid'
  BY <1>1, <1>2
  DEF storeVars, workerVars, BusyHasJob, PaidWorkers, ConfirmedHasSeat, PaidBeforeConfirmed,
      LatePaid
<1>4. Len(order') = Len(order) + 1 /\ Len(queue') = Len(queue) + 1 /\ Taken' = Taken
  BY <1>1 DEF Taken
<1>5. /\ \A i \in 1 .. Len(order) : order'[i] = order[i]
      /\ order'[Len(order) + 1] = b
      /\ \A i \in 1 .. Len(queue) : queue'[i] = queue[i]
      /\ queue'[Len(queue) + 1] = b
  BY <1>1
<1>6. \A i \in 1 .. Len(order) : order[i] # b /\ order[i] \in Bookings
  BY <1>1 DEF InTurn
<1>7. InTurn'
  <2>1. ASSUME NEW i \in 1 .. Len(queue') PROVE queue'[i] = order'[Taken + i]
    <3>1. CASE i \in 1 .. Len(queue)
      <4>1. Taken + i \in 1 .. Len(order)
        BY <3>1 DEF InTurn, Taken
      <4> QED
        BY <1>5, <3>1, <4>1 DEF InTurn
    <3>2. CASE i = Len(queue) + 1
      BY <1>4, <1>5, <3>2 DEF Taken
    <3> QED
      BY <1>4, <3>1, <3>2
  <2>2. ASSUME NEW i \in 1 .. Len(order'), NEW j \in 1 .. Len(order'), order'[i] = order'[j]
        PROVE  i = j
    BY <1>4, <1>5, <1>6, <2>2 DEF InTurn
  <2>3. ASSUME NEW i \in 1 .. Len(order')
        PROVE  ingress'[order'[i]] \notin {"idle", "created"}
    BY <1>1, <1>4, <1>5, <1>6, <2>3 DEF InTurn, IngressTypeOK
  <2>4. ASSUME NEW w \in Workers, pc'[w] # "idle"
        PROVE  Taken \in 1 .. Len(order') /\ job'[w] = order'[Taken]
    <3>1. Taken \in 1 .. Len(order) /\ job'[w] = order[Taken]
      BY <1>1, <2>4 DEF InTurn, workerVars
    <3>2. Len(order) \in Nat
      OBVIOUS
    <3> QED
      BY <1>4, <1>5, <3>1, <3>2
  <2> QED
    BY <1>4, <2>1, <2>2, <2>3, <2>4 DEF InTurn
<1>8. Seated'
  <2>1. ASSUME NEW c, WasTaken(c) PROVE WasTaken(c)'
    <3>1. PICK i \in 1 .. Taken : order[i] = c
      BY <2>1 DEF WasTaken
    <3>2. i \in 1 .. Len(order)
      BY DEF InTurn, Taken
    <3> QED
      BY <1>4, <1>5, <3>1, <3>2 DEF WasTaken
  <2> QED
    BY <1>1, <2>1 DEF Seated, storeVars, workerVars
<1> QED
  BY <1>2, <1>3, <1>7, <1>8

\* By taking the next job.
LEMMA TakeKeeps ==
  ASSUME LocalInv, NEW w \in Workers, TakeJob(w)
  PROVE  LocalInv'
<1> USE DEF LocalInv, LocalTypeOK, Safe, Typed, TypeOK
<1>1. /\ UNCHANGED storeVars /\ UNCHANGED transportVars
      /\ UNCHANGED <<ingress, cached, dlq, refunded, retried, rows, began, body, order, late>>
      /\ \A v \in Workers : pc[v] = "idle"
      /\ pc' = [pc EXCEPT ![w] = "booking"] /\ job' = [job EXCEPT ![w] = Head(queue)]
      /\ queue # <<>> /\ queue' = Tail(queue)
  BY DEF TakeJob, ingressVars, auditVars
<1>2. /\ Len(queue) \in Nat \ {0} /\ Len(order) \in Nat
      /\ Head(queue) = queue[1] /\ Head(queue) \in Bookings
      /\ Len(queue') = Len(queue) - 1
      /\ \A i \in 1 .. Len(queue') : queue'[i] = queue[i + 1]
      /\ queue' \in Seq(Bookings)
  BY <1>1
<1>3. Taken' = Taken + 1 /\ Taken \in 0 .. Len(order) - 1
  BY <1>1, <1>2 DEF Taken, InTurn
<1>4. queue[1] = order[Taken']
  BY <1>2, <1>3 DEF InTurn
<1>5. \A v \in Workers : pc'[v] # "idle" => v = w
  BY <1>1 DEF WorkerTypeOK
<1>6. pc'[w] = "booking" /\ job'[w] = order[Taken']
  BY <1>1, <1>2, <1>4 DEF WorkerTypeOK
<1>7. LocalTypeOK'
  <2>1. StoreTypeOK' /\ TransportTypeOK' /\ IngressTypeOK'
    BY <1>1 DEF storeVars, StoreTypeOK, transportVars, TransportTypeOK, IngressTypeOK
  <2>2. WorkerTypeOK'
    BY <1>1, <1>2 DEF WorkerTypeOK, Steps
  <2> QED
    BY <1>1, <1>2, <1>5, <2>1, <2>2 DEF transportVars
<1>8. Safe' /\ LatePaid'
  <2>1. BusyHasJob' /\ PaidWorkers'
    BY <1>2, <1>4, <1>5, <1>6 DEF BusyHasJob, PaidWorkers
  <2> QED
    BY <1>1, <1>7, <2>1 DEF storeVars, ConfirmedHasSeat, PaidBeforeConfirmed, LatePaid
<1>9. InTurn'
  <2>1. ASSUME NEW i \in 1 .. Len(queue') PROVE queue'[i] = order[Taken' + i]
    <3>1. i + 1 \in 1 .. Len(queue) /\ Taken + (i + 1) = Taken' + i
      BY <1>2, <1>3
    <3> QED
      BY <1>2, <3>1 DEF InTurn
  <2>2. ASSUME NEW v \in Workers, pc'[v] # "idle"
        PROVE  Taken' \in 1 .. Len(order) /\ job'[v] = order[Taken']
    BY <1>2, <1>3, <1>5, <1>6, <2>2
  <2>3. Len(queue') <= Len(order')
    BY <1>1, <1>2 DEF InTurn
  <2> QED
    BY <1>1, <2>1, <2>2, <2>3 DEF InTurn
<1>10. Seated'
  <2>1. ASSUME NEW b, WasTaken(b) PROVE WasTaken(b)'
    BY <1>1, <1>2, <1>3, <2>1 DEF WasTaken, InTurn
  <2>2. UNCHANGED <<seatStatus, seatBooking, late>>
    BY <1>1 DEF storeVars
  <2> QED
    BY <2>1, <2>2 DEF Seated
<1> QED
  BY <1>7, <1>8, <1>9, <1>10

\* By a restart of the process.
LEMMA RestartKeeps ==
  ASSUME LocalInv, ServerRestarts
  PROVE  LocalInv'
<1> USE DEF LocalInv, LocalTypeOK, Safe, Typed, TypeOK
<1>1. /\ UNCHANGED storeVars /\ UNCHANGED transportVars
      /\ UNCHANGED <<cached, dlq, refunded, retried, order, late>>
      /\ pc' = [w \in Workers |-> "idle"] /\ queue' = <<>>
  BY DEF ServerRestarts, auditVars
<1>2. LocalTypeOK'
  <2>1. StoreTypeOK' /\ TransportTypeOK'
    BY <1>1 DEF storeVars, StoreTypeOK, transportVars, TransportTypeOK
  <2>2. IngressTypeOK' /\ WorkerTypeOK'
    BY <1>1 DEF ServerRestarts, IngressTypeOK, IngressStates, WorkerTypeOK, Steps, Bodies
  <2> QED
    BY <1>1, <2>1, <2>2 DEF transportVars
<1>3. Safe' /\ LatePaid'
  BY <1>1, <1>2
  DEF storeVars, BusyHasJob, PaidWorkers, ConfirmedHasSeat, PaidBeforeConfirmed, LatePaid
<1>4. Len(queue') = 0 /\ Len(order') = Len(order) /\ Len(order) \in Nat /\ Len(queue) \in Nat
  BY <1>1
<1>5. InTurn'
  <2>1. \A i \in 1 .. Len(order) : ingress'[order[i]] \notin {"idle", "created"}
    <3>1. \A b \in Bookings : ingress'[b] \in {"dead", ingress[b]}
      BY DEF ServerRestarts
    <3> QED
      BY <3>1 DEF InTurn
  <2> QED
    BY <1>1, <1>4, <2>1 DEF InTurn
<1>6. Seated'
  <2>1. ASSUME NEW b, WasTaken(b) PROVE WasTaken(b)'
    BY <1>1, <1>4, <2>1 DEF WasTaken, Taken, InTurn
  <2> QED
    BY <1>1, <2>1 DEF Seated, storeVars
<1> QED
  BY <1>2, <1>3, <1>5, <1>6

-----------------------------------------------------------------------------
(* Late calls. *)

\* A late confirm_booking seals a seat that is RESERVED for its PENDING booking.
LEMMA LateConfirmEffect ==
  ASSUME LocalTypeOK, NEW c \in late, LateConfirm(c)
  PROVE  /\ c.job \in Bookings /\ c.call = "confirm"
         /\ bookingStatus[c.job] = "PENDING"
         /\ \E s \in Seats :
              /\ seatStatus[s] = "RESERVED" /\ seatBooking[s] = c.job
              /\ seatStatus' = [seatStatus EXCEPT ![s] = "CONFIRMED"]
              /\ seatBooking' = seatBooking
              /\ holdLive' = [holdLive EXCEPT ![s] = FALSE]
              /\ bookingStatus' = [bookingStatus EXCEPT ![c.job] = "CONFIRMED"]
              /\ bookingSeat' = [bookingSeat EXCEPT ![c.job] = s]
              /\ payment' = payment
BY DEF LocalTypeOK, LateConfirm, HeldBy, SealSeat, ConfirmBookingRow

\* What a late call may do to the tables: the seats of others, what is sold,
\* decided or paid stay, and only confirm_booking confirms.
LateKept(c) ==
  /\ \A s \in Seats : seatStatus[s] = "CONFIRMED" =>
       seatStatus'[s] = "CONFIRMED" /\ seatBooking'[s] = seatBooking[s]
  /\ \A b \in Bookings : bookingStatus[b] \in Terminal =>
       bookingStatus'[b] = bookingStatus[b] /\ bookingSeat'[b] = bookingSeat[b]
  /\ \A b \in Bookings : payment[b] = "succeeded" => payment'[b] = "succeeded"
  /\ \A b \in Bookings : bookingStatus'[b] = "CONFIRMED" /\ bookingStatus[b] # "CONFIRMED" =>
       LateConfirm(c) /\ b = c.job
  /\ \A s \in Seats :
       \/ /\ seatBooking'[s] = seatBooking[s]
          /\ seatStatus'[s] # "AVAILABLE" => seatStatus[s] # "AVAILABLE"
       \/ seatStatus'[s] = "AVAILABLE" /\ seatBooking'[s] = NoBooking
       \/ seatBooking'[s] = c.job

\* Freed holds are not sold seats.
LEMMA FreedHolds ==
  ASSUME NEW b, Vacate(HeldBy(b))
  PROVE  /\ \A s \in Seats : seatStatus[s] = "CONFIRMED" =>
              seatStatus'[s] = "CONFIRMED" /\ seatBooking'[s] = seatBooking[s]
         /\ \A s \in Seats :
              \/ seatBooking'[s] = seatBooking[s] /\ seatStatus'[s] = seatStatus[s]
              \/ seatStatus'[s] = "AVAILABLE" /\ seatBooking'[s] = NoBooking
BY DEF Vacate, HeldBy

\* So it is for each of them, and the tables keep their types.
LEMMA LateEffects ==
  ASSUME LocalTypeOK, Typed, NEW c \in late, LateLands(c)
  PROVE  LateKept(c) /\ StoreTypeOK'
<1> USE DEF LocalTypeOK, TypeOK, StoreTypeOK
<1>0. c.job \in Bookings
  OBVIOUS
<1>1. CASE LateAllocate(c)
  <2>1. PICK s \in c.rows \cap Free : Reserve(s, c.job)
    BY <1>1 DEF LateAllocate
  <2>2. UNCHANGED <<bookingStatus, bookingSeat, payment>> /\ s \in Seats
    BY <1>1 DEF LateAllocate, bookingVars, Free
  <2>3. StoreTypeOK'
    BY <1>0, <2>1, <2>2, SeatTypes
  <2> QED
    BY <2>1, <2>2, <2>3 DEF Free, Reserve, LateKept
<1>2. CASE LateCharge(c)
  BY <1>0, <1>2 DEF LateCharge, seatVars, bookingVars, LateKept
<1>3. CASE LateConfirm(c)
  <2>1. StoreTypeOK'
    <3>1. PICK s \in Seats : SealSeat(s) /\ ConfirmBookingRow(c.job, s)
      BY <1>3 DEF LateConfirm, HeldBy
    <3>2. payment' = payment
      BY <1>3 DEF LateConfirm
    <3> QED
      BY <1>0, <3>1, <3>2, SeatTypes DEF ConfirmBookingRow, BookingStates, Terminal
  <2> QED
    BY <1>3, <2>1, LateConfirmEffect DEF LateKept, Terminal
<1>4. CASE LateRelease(c)
  <2>1. Vacate(HeldBy(c.job)) /\ UNCHANGED <<bookingStatus, bookingSeat, payment>>
    BY <1>4 DEF LateRelease, release_hold_retryable
  <2> QED
    BY <2>1, FreedHolds, SeatTypes DEF LateKept
<1>5. CASE LateFail(c)
  <2>1. Vacate(HeldBy(c.job)) /\ FailIfPending(c.job) /\ payment' = payment
    BY <1>5 DEF LateFail
  <2>2. StoreTypeOK'
    BY <2>1, SeatTypes DEF FailIfPending, BookingStates, Terminal
  <2> QED
    BY <1>0, <2>1, <2>2, FreedHolds, FailKeeps DEF LateKept
<1> QED
  BY <1>1, <1>2, <1>3, <1>4, <1>5 DEF LateLands

\* It leaves seats only with jobs that were taken.
LEMMA LateSeats ==
  ASSUME Seated, NEW c \in late, c.job \in Bookings, LateKept(c),
         UNCHANGED <<queue, order>>, late' = late \ {c}
  PROVE  Seated'
<1>1. \A b : WasTaken(b)' <=> WasTaken(b)
  BY DEF WasTaken, Taken
<1>2. WasTaken(c.job) /\ c.job # NoBooking
  BY IdsAssumption DEF Seated
<1>3. ASSUME NEW s \in Seats
      PROVE  /\ seatStatus'[s] # "AVAILABLE" => seatBooking'[s] # NoBooking
             /\ seatBooking'[s] # NoBooking => WasTaken(seatBooking'[s])
  BY <1>2 DEF Seated, LateKept
<1>4. \A d \in late' : WasTaken(d.job)
  BY DEF Seated
<1> QED
  BY <1>1, <1>3, <1>4 DEF Seated

\* The invariant survives a late call.
LEMMA LateKeeps ==
  ASSUME LocalInv, NEW c \in late, LateLands(c)
  PROVE  LocalInv'
<1> USE DEF LocalInv, LocalTypeOK, Safe, Typed, TypeOK
<1>1. LateKept(c) /\ StoreTypeOK'
  BY LateEffects
<1>2. /\ UNCHANGED transportVars /\ UNCHANGED workerVars
      /\ UNCHANGED <<ingress, cached, dlq, refunded, queue, order>>
      /\ late' = late \ {c}
  BY DEF LateLands, ingressVars, auditVars
<1>3. LocalTypeOK'
  BY <1>1, <1>2
  DEF transportVars, TransportTypeOK, workerVars, WorkerTypeOK, IngressTypeOK
<1>4. BusyHasJob' /\ PaidWorkers' /\ LatePaid'
  <2>1. \A w \in Workers : pc[w] # "idle" => job[w] \in Bookings
    BY DEF BusyHasJob
  <2> QED
    BY <1>1, <1>2, <2>1 DEF workerVars, BusyHasJob, PaidWorkers, LatePaid, LateKept
<1>5. PaidBeforeConfirmed'
  BY <1>1, LateConfirmEffect DEF LateKept, PaidBeforeConfirmed, LatePaid
<1>6. ConfirmedHasSeat'
  <2> SUFFICES ASSUME NEW b \in Bookings, bookingStatus'[b] = "CONFIRMED"
               PROVE  /\ bookingSeat'[b] \in Seats
                      /\ seatStatus'[bookingSeat'[b]] = "CONFIRMED"
                      /\ seatBooking'[bookingSeat'[b]] = b
    BY DEF ConfirmedHasSeat
  <2>1. CASE bookingStatus[b] = "CONFIRMED"
    BY <1>1, <2>1 DEF ConfirmedHasSeat, LateKept, Terminal
  <2>2. CASE bookingStatus[b] # "CONFIRMED"
    <3>1. LateConfirm(c) /\ b = c.job
      BY <1>1, <2>2 DEF LateKept
    <3> QED
      BY <3>1, LateConfirmEffect DEF StoreTypeOK
  <2> QED
    BY <2>1, <2>2
<1>7. InTurn'
  BY <1>2 DEF InTurn, Taken, workerVars
<1>8. Seated'
  BY <1>1, <1>2, LateSeats
<1> QED
  BY <1>1, <1>3, <1>4, <1>5, <1>6, <1>7, <1>8

\* So it does when only the late calls change: one of them locks its row, or is
\* gone.
LateMoves ==
  /\ UNCHANGED <<vars, queue, order>>
  /\ \A d \in late' : \E c \in late :
       /\ d.call = c.call /\ d.job = c.job
       /\ d \in [call : Calls, job : Bookings, rows : SUBSET Seats, began : BOOLEAN]

LEMMA MovesKeep ==
  ASSUME LocalInv, LateMoves
  PROVE  LocalInv'
<1> USE DEF LocalInv, LocalTypeOK, Safe, Typed, LateMoves
<1>1. Typed' /\ Safe'
  BY SafeStep DEF vars
<1>2. UNCHANGED <<storeVars, transportVars, workerVars, ingressVars>>
  BY DEF vars
<1>3. LocalTypeOK'
  BY <1>1, <1>2 DEF transportVars, workerVars
<1>4. LatePaid'
  BY <1>2 DEF LatePaid, storeVars
<1>5. InTurn'
  BY <1>2 DEF InTurn, Taken, workerVars, ingressVars
<1>6. Seated'
  BY <1>2 DEF Seated, WasTaken, Taken, storeVars
<1> QED
  BY <1>1, <1>3, <1>4, <1>5, <1>6

\* What a lock or a roll-back does.
LEMMA LateMovesOnly ==
  ASSUME LocalTypeOK
  PROVE  /\ \A c \in late : LateLocks(c) \/ LateVanishes(c) => LateMoves
         /\ UNCHANGED localVars => LateMoves
<1> USE DEF LocalTypeOK, LateMoves
<1>1. ASSUME NEW c \in late, LateLocks(c) PROVE LateMoves
  <2>1. PICK s \in Seats : late' = (late \ {c}) \cup {[c EXCEPT !.rows = {s}]}
    BY <1>1 DEF LateLocks, Free
  <2>2. /\ [c EXCEPT !.rows = {s}].call = c.call /\ [c EXCEPT !.rows = {s}].job = c.job
        /\ [c EXCEPT !.rows = {s}]
             \in [call : Calls, job : Bookings, rows : SUBSET Seats, began : BOOLEAN]
    OBVIOUS
  <2> QED
    BY <1>1, <2>1, <2>2 DEF LateLocks
<1>2. ASSUME NEW c \in late, LateVanishes(c) PROVE LateMoves
  BY <1>2 DEF LateVanishes
<1>3. ASSUME UNCHANGED localVars PROVE LateMoves
  BY <1>3 DEF localVars, queueVars
<1> QED
  BY <1>1, <1>2, <1>3

\* By a call that is made again.
LEMMA AgainKeeps ==
  ASSUME LocalInv, NEW w \in Workers, CallAgain(w)
  PROVE  LocalInv'
<1> USE DEF LocalInv, LocalTypeOK, Safe, Typed, TypeOK
<1>1. /\ UNCHANGED <<storeVars, transportVars, ingressVars, dlq, refunded, queue, order>>
      /\ UNCHANGED <<job, retried, rows, began, body>>
      /\ pc[w] \in DOMAIN Call /\ pc[w] # "idle" /\ late' = late \cup {CallOf(w)}
      /\ pc' = [pc EXCEPT ![w] = First[Call[pc[w]]]]
  BY DEF CallAgain, auditVars, Call
<1>2. /\ Call[pc[w]] \in Calls
      /\ First[Call[pc[w]]] \in Steps \ {"idle", "seal", "insert"}
      /\ First[Call[pc[w]]] = "confirm" => pc[w] \in {"confirm", "seal"}
  BY <1>1, CallNames
<1>3. /\ late' \subseteq [call : Calls, job : Bookings, rows : SUBSET Seats, began : BOOLEAN]
      /\ LatePaid' /\ \A c \in late' : WasTaken(c.job)
  BY <1>1, Abandoned DEF storeVars
<1>4. LocalTypeOK'
  <2>1. StoreTypeOK' /\ TransportTypeOK' /\ IngressTypeOK'
    BY <1>1
    DEF storeVars, StoreTypeOK, transportVars, TransportTypeOK, ingressVars, IngressTypeOK
  <2>2. WorkerTypeOK' /\ \A v \in Workers : pc'[v] # "idle" => pc[v] # "idle"
    BY <1>1, <1>2 DEF WorkerTypeOK
  <2> QED
    BY <1>1, <1>3, <2>1, <2>2 DEF transportVars
<1>5. Safe'
  <2>1. BusyHasJob' /\ PaidWorkers'
    BY <1>1, <1>2 DEF BusyHasJob, PaidWorkers, storeVars, WorkerTypeOK
  <2> QED
    BY <1>1, <1>4, <2>1 DEF storeVars, ConfirmedHasSeat, PaidBeforeConfirmed
<1>6. InTurn'
  <2>1. \A v \in Workers : pc'[v] # "idle" => pc[v] # "idle"
    BY <1>1 DEF WorkerTypeOK
  <2> QED
    BY <1>1, <2>1 DEF InTurn, Taken, ingressVars
<1>7. Seated'
  BY <1>1, <1>3 DEF Seated, WasTaken, Taken, storeVars
<1> QED
  BY <1>3, <1>4, <1>5, <1>6, <1>7

\* A step of the process is one of these.
LEMMA LocalMoves ==
  ASSUME LocalInv, [LocalNext]_localVars
  PROVE  \/ EngineStep
         \/ \E b \in Bookings : Dispatch(b)
         \/ \E w \in Workers : TakeJob(w)
         \/ \E c \in late : LateLands(c)
         \/ \E w \in Workers : CallAgain(w)
         \/ LateMoves
         \/ ServerRestarts
<1>1. CASE UNCHANGED localVars
  BY <1>1, LateMovesOnly DEF LocalInv
<1>2. CASE LocalNext
  <2>1. ASSUME NEW b \in Bookings, PostStep(b) \/ Dispatch(b) \/ DispatchFails(b)
        PROVE  EngineStep \/ Dispatch(b)
    BY <2>1, EngineSteps DEF LocalInv
  <2>2. ASSUME NEW w \in Workers,
               TakeJob(w) \/ JobStep(w) \/ JobFails(w) \/ CallTimesOut(w) \/ CallAgain(w)
        PROVE  EngineStep \/ TakeJob(w) \/ CallAgain(w)
    BY <2>2, EngineSteps DEF LocalInv
  <2>3. ASSUME NEW c \in late, LateLocks(c) \/ LateLands(c) \/ LateVanishes(c)
        PROVE  LateLands(c) \/ LateMoves
    BY <2>3, LateMovesOnly DEF LocalInv
  <2>4. ASSUME (\E s \in Seats : Expire(s)) \/ Sweep, UNCHANGED queueVars PROVE EngineStep
    BY <2>4, EngineSteps DEF LocalInv
  <2> QED
    BY <1>2, <2>1, <2>2, <2>3, <2>4 DEF LocalNext
<1> QED
  BY <1>1, <1>2

\* LocalInv is inductive.
LEMMA LocalStep == LocalInv /\ [LocalNext]_localVars => LocalInv'
<1> QED
  BY LocalMoves, EngineKeeps, DispatchKeeps, TakeKeeps, LateKeeps, AgainKeeps, MovesKeep,
     RestartKeeps

\* Initially nothing is published.
LEMMA LocalStart == LocalInit => LocalInv
<1> SUFFICES ASSUME LocalInit PROVE LocalInv
  OBVIOUS
<1>1. Safe /\ Typed
  BY SafeInit DEF LocalInit, Safe
<1>2. LocalTypeOK
  BY <1>1 DEF LocalInit, Init, TransportInit, LocalTypeOK, Typed
<1>3. Len(order) = 0 /\ Len(queue) = 0 /\ late = {}
  BY DEF LocalInit
<1>4. InTurn /\ Seated /\ LatePaid
  BY <1>3 DEF LocalInit, Init, StoreInit, InTurn, Seated, LatePaid
<1> QED
  BY <1>1, <1>2, <1>4 DEF LocalInv

-----------------------------------------------------------------------------
(* Theorems. *)

\* Every variable keeps its type; in particular one job runs at a time, nothing is
\* ever published to a broker and no job is a retry.
THEOREM LocalTyping == LocalSpec => []LocalTypeOK
<1>1. LocalInv => LocalTypeOK
  BY DEF LocalInv
<1> QED
  BY LocalStart, LocalStep, <1>1, PTL DEF LocalSpec

\* A CONFIRMED booking has its seat and was paid for, even when confirm_booking
\* lands after its job has ended.
THEOREM LocalSafety == LocalSpec => [](ConfirmedHasSeat /\ PaidBeforeConfirmed)
<1>1. LocalInv => ConfirmedHasSeat /\ PaidBeforeConfirmed
  BY DEF LocalInv, Safe
<1> QED
  BY LocalStart, LocalStep, <1>1, PTL DEF LocalSpec

\* A late call is a step of the sale or changes nothing the sale shows.
LEMMA LateIsSale ==
  ASSUME LocalInv, NEW c \in late, LateLands(c)
  PROVE  [Sale!SaleNext]_(Sale!saleVars)
<1>0. LocalTypeOK /\ Typed /\ StoreTypeOK /\ ConfirmedHasSeat
  BY DEF LocalInv, Safe, Typed, TypeOK
<1>1. CASE LateConfirm(c)
  <2>1. PICK s \in Seats :
          /\ seatStatus[s] = "RESERVED"
          /\ bookingStatus' = [bookingStatus EXCEPT ![c.job] = "CONFIRMED"]
          /\ bookingSeat' = [bookingSeat EXCEPT ![c.job] = s]
    BY <1>0, <1>1, LateConfirmEffect
  <2>2. c.job \in Bookings /\ bookingStatus[c.job] = "PENDING"
    BY <1>0, <1>1, LateConfirmEffect
  <2>3. s \notin Sale!Sold
    BY <1>0, <2>1 DEF Sale!Sold, Outcome, ConfirmedHasSeat
  <2>4. Sale!Sell(c.job, s)
    BY <1>0, <2>1, <2>2, <2>3 DEF StoreTypeOK, Sale!Sell, Outcome, Terminal
  <2> QED
    BY <2>2, <2>4 DEF Sale!SaleNext
<1>2. CASE LateFail(c)
  BY <1>0, <1>2, FailIsTurnDown DEF LateFail, LocalTypeOK
<1>3. CASE LateAllocate(c) \/ LateCharge(c) \/ LateRelease(c)
  <2>1. UNCHANGED <<bookingStatus, bookingSeat>>
    BY <1>3 DEF LateAllocate, LateCharge, LateRelease, release_hold_retryable, bookingVars
  <2> QED
    BY <2>1 DEF Sale!saleVars, Outcome
<1> QED
  BY <1>1, <1>2, <1>3 DEF LateLands

\* The bypass implements SeatSale as the engine behind the broker does: calls that
\* land late sell free seats to open bookings only, or turn open bookings down.
THEOREM LocalRefinement == LocalSpec => LocalSaleRefined
<1>1. LocalInit => Sale!SaleInit
  BY DEF LocalInit, Init, StoreInit, Sale!SaleInit, Outcome, Terminal
<1>2. ASSUME LocalInv, [LocalNext]_localVars PROVE [Sale!SaleNext]_(Sale!saleVars)
  <2>1. CASE EngineStep
    BY <1>2, <2>1, SaleStep DEF EngineStep, LocalInv
  <2>2. ASSUME NEW c \in late, LateLands(c) PROVE [Sale!SaleNext]_(Sale!saleVars)
    BY <1>2, <2>2, LateIsSale
  <2>3. CASE UNCHANGED storeVars
    BY <2>3 DEF storeVars, Sale!saleVars, Outcome
  <2>4. \/ EngineStep
        \/ \E c \in late : LateLands(c)
        \/ UNCHANGED storeVars
    BY <1>2, LocalMoves DEF Dispatch, TakeJob, CallAgain, LateMoves, ServerRestarts, vars
  <2> QED
    BY <2>1, <2>2, <2>3, <2>4
<1> QED
  BY <1>1, <1>2, LocalStart, LocalStep, PTL DEF LocalSpec, LocalSaleRefined, Sale!SaleSpec

\* Only a worker that finds every AVAILABLE seat locked says that the train is
\* sold out.
SoldOutIsSeen ==
  \A w \in Workers : body'[w] = "sold_out" /\ body[w] # "sold_out" =>
    pc[w] = "takeSeat" /\ Free \subseteq Locked

\* One statement of the job.
LEMMA JobSees ==
  ASSUME Typed, NEW w \in Workers, JobStep(w)
  PROVE  SoldOutIsSeen
<1> USE DEF Typed, TypeOK, WorkerTypeOK
<1>1. CASE SoldOut(w) /\ Free \subseteq Locked
  BY <1>1 DEF SoldOut, Step, GoTerminal, SoldOutIsSeen
<1>2. ASSUME body' = body \/ \E what \in Bodies \ {"sold_out"} : body' = [body EXCEPT ![w] = what]
      PROVE  SoldOutIsSeen
  BY <1>2 DEF SoldOutIsSeen
<1>3. CASE AlreadyTerminal(w) \/ ReleaseForRetry(w) \/ CacheAndRespond(w)
  BY <1>2, <1>3
  DEF AlreadyTerminal, ReleaseForRetry, CacheAndRespond, Respond, Finish, Bodies
<1>4. CASE SeesPending(w) \/ ReuseHold(w) \/ NoHoldYet(w) \/ AllocateSeat(w) \/ InsertPayment(w)
        \/ ConfirmReads(w) \/ ConfirmNothing(w) \/ Unseat(w) \/ FailBooking(w)
  BY <1>2, <1>4
  DEF SeesPending, ReuseHold, NoHoldYet, AllocateSeat, InsertPayment, ConfirmReads,
      ConfirmNothing, Unseat, FailBooking
<1>5. CASE LookupPayment(w) \/ PaymentUnavailable(w) \/ Confirm(w) \/ Refund(w)
  BY <1>2, <1>5 DEF LookupPayment, PaymentUnavailable, GoTerminal, Confirm, Refund, Bodies
<1> QED
  BY <1>1, <1>3, <1>4, <1>5
  DEF JobStep, CheckBooking, AllocateJob, ChargeJob, ConfirmJob, FinishJob

\* Every step.
LEMMA LocalSees ==
  ASSUME Typed, [LocalNext]_localVars
  PROVE  SoldOutIsSeen
<1> USE DEF Typed, TypeOK, WorkerTypeOK
<1>1. ASSUME body' = body PROVE SoldOutIsSeen
  BY <1>1 DEF SoldOutIsSeen
<1>2. ASSUME NEW b \in Bookings, PostStep(b) \/ Dispatch(b) \/ DispatchFails(b)
      PROVE  body' = body
  BY <1>2
  DEF PostStep, Dispatch, DispatchFails, CreateBooking, MarkUnpublished, CacheRejected,
      CacheAccepted, Ingress, IngressDies, workerVars
<1>3. ASSUME NEW w \in Workers, TakeJob(w) \/ CallAgain(w) PROVE body' = body
  BY <1>3 DEF TakeJob, CallAgain
<1>4. ASSUME NEW w \in Workers, JobStep(w) PROVE SoldOutIsSeen
  BY <1>4, JobSees
<1>5. ASSUME NEW w \in Workers, JobFails(w) \/ CallTimesOut(w) PROVE SoldOutIsSeen
  <2>1. body' = body \/ \E what \in {"none", "worker_error"} : body' = [body EXCEPT ![w] = what]
    BY <1>5
    DEF JobFails, CallTimesOut, Throws, Respond, Finish, PaymentUnavailable, GoTerminal
  <2> QED
    BY <2>1 DEF SoldOutIsSeen
<1>6. ASSUME NEW c \in late, LateLocks(c) \/ LateLands(c) \/ LateVanishes(c) PROVE body' = body
  BY <1>6 DEF LateLocks, LateLands, LateVanishes, workerVars, vars
<1>7. (\E s \in Seats : Expire(s)) \/ Sweep \/ UNCHANGED localVars => body' = body
  BY DEF Expire, Sweep, localVars, vars, workerVars
<1>8. CASE ServerRestarts
  BY <1>8 DEF ServerRestarts, SoldOutIsSeen
<1> QED
  BY <1>1, <1>2, <1>3, <1>4, <1>5, <1>6, <1>7, <1>8 DEF LocalNext

\* Then every seat is with, or locked for, a booking that was published no later
\* than the one at takeSeat.
LEMMA SeatsWentBefore ==
  ASSUME LocalInv, NEW w \in Workers, pc[w] = "takeSeat", Free \subseteq Locked, NEW s \in Seats
  PROVE  \E i \in 1 .. Place(job[w]) : HasOrLocks(order[i], s)
<1> USE DEF LocalInv, LocalTypeOK
<1>1. \E b : WasTaken(b) /\ HasOrLocks(b, s)
  <2>1. CASE s \in Free
    BY <2>1 DEF Locked, Seated, HasOrLocks
  <2>2. CASE s \notin Free
    BY <2>2 DEF Free, Seated, HasOrLocks
  <2> QED
    BY <2>1, <2>2
<1>2. PICK i \in 1 .. Taken : HasOrLocks(order[i], s)
  BY <1>1 DEF WasTaken
<1>3. Taken \in 1 .. Len(order) /\ job[w] = order[Taken]
  BY DEF InTurn
<1>4. Place(job[w]) = Taken
  BY <1>3 DEF Place, InTurn
<1> QED
  BY <1>2, <1>4

\* First come, first served, whatever lands late and whenever the process restarts.
THEOREM FirstComeFirstServed == LocalSpec => SoldOutInOrder
<1>1. LocalInv /\ [LocalNext]_localVars =>
        [\A w \in Workers :
           (body'[w] = "sold_out" /\ body[w] # "sold_out") =>
             \A s \in Seats : \E i \in 1 .. Place(job[w]) : HasOrLocks(order[i], s)]_localVars
  BY LocalSees, SeatsWentBefore DEF LocalInv, Safe, SoldOutIsSeen
<1> QED
  BY <1>1, LocalStart, LocalStep, PTL DEF LocalSpec, SoldOutInOrder

=============================================================================
