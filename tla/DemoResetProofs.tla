--------------------------- MODULE DemoResetProofs ---------------------------
(***************************************************************************)
(* What survives POST /api/admin/reset, for any number of seats, bookings  *)
(* and invocations, whenever the reset comes and wherever it stops: the    *)
(* engine's own invariants fail while rows disappear under it, and these   *)
(* say exactly when they hold again.                                       *)
(***************************************************************************)
EXTENDS DemoReset, ReservationProofs

\* Whom the broker or an invocation names has been asked for by a POST.
Started ==
  /\ \A w \in Workers : pc[w] # "idle" => ingress[job[w]] # "idle"
  /\ \A b \in Bookings : ingress[b] \in {"idle", "created"} => phase[b] = "unpublished"

\* The foreign key of seats: no seat refers to a booking that was deleted.
NoDangling ==
  \A s \in Seats : seatBooking[s] # NoBooking => bookingStatus[seatBooking[s]] # "ABSENT"

\* Nothing is cached for a key that was deleted.
KeysDeleted == \A k \in forgotten : cached[k] = "none"

\* Who does nothing says nothing.
Blank ==
  /\ \A w \in Workers : pc[w] = "idle" => body[w] = "none"
  /\ \A b \in Bookings : ingress[b] = "idle" /\ Unshared(b) => cached[b] = "none"

\* A callback comes after the broker is done with the message.
CallsBack == \A w \in Workers : pc[w] = "dlq" => phase[job[w]] \in Over

\* Reset or not, a booking whose job is delivered once is served by one invocation.
Undisturbed == \A b \in Bookings : Unshared(b) /\ ~Disturbed(b) => Lone(b)

\* Once the keys are deleted, what is said of bookings that came later is true.
Anew ==
  reset \in {"idle", "dlq", "done"} =>
    \A b \in Bookings : Unshared(b) /\ b \notin forgotten \cup kept =>
      /\ ingress[b] # "idle" => bookingStatus[b] # "ABSENT"
      /\ HonestFor(b)
      /\ OutcomeIsReal(b, Disturbed(b))

ResetInv ==
  /\ Typed /\ ResetTypeOK
  /\ Started /\ NoDangling /\ BodyIsFresh
  /\ ResetKeepsSaleConsistent
  /\ KeysDeleted /\ Blank /\ CallsBack /\ Undisturbed /\ Anew

-----------------------------------------------------------------------------
(* Steps of the engine. *)

\* Those Reservation has, without the statements that are refused.
Guarded ==
  \/ \E b \in Bookings : PostNext(b) \/ BrokerGivesUp(b)
  \/ \E w \in Workers, b \in Bookings : Deliver(w, b) \/ DeliverCallback(w, b)
  \/ \E w \in Workers : ~Refused(w) /\ WorkerStep(w)
  \/ \E w \in Workers : Throws(w) \/ Dies(w)
  \/ \E s \in Seats : Expire(s)
  \/ Sweep

\* Keys that were never posted again, and those without a row, are not written.
Spares ==
  /\ cached' \in [Bookings -> CacheStates]
  /\ \A b \in Bookings : Unshared(b) \/ b \in forgotten => cached'[b] = cached[b]

\* A reply for a row that is not there any more goes to the row of whoever has
\* posted the key again, or nowhere.
LEMMA WriteSpares ==
  ASSUME ResetTypeOK, NEW b \in Bookings, Elsewhere(b), NEW what \in CacheStates,
         WriteReply(b, what)
  PROVE  Spares
<1> USE DEF ResetTypeOK, TypeOK, IngressTypeOK, Spares
<1>1. CASE key[b] \in forgotten
  BY <1>1 DEF WriteReply
<1>2. CASE key[b] \notin forgotten
  <2>1. key[b] # b /\ key[b] \in Bookings
    BY <1>2 DEF Elsewhere
  <2>2. ~Unshared(key[b])
    BY <2>1 DEF Unshared
  <2> QED
    BY <1>2, <2>1, <2>2 DEF WriteReply
<1> QED
  BY <1>1, <1>2

\* An invocation that ends and writes to no row of its own.
Ends(w) ==
  /\ pc[w] # "idle"
  /\ \E code \in {200, 489, 500} : Respond(w, code)
  /\ Spares
  /\ UNCHANGED <<storeVars, ingress, auditVars>>

\* A POST that does.
Posts(b) ==
  /\ Spares
  /\ \E from \in {"published", "tombstone"}, to \in {"accepted", "rejected"} : Ingress(b, from, to)
  /\ UNCHANGED <<storeVars, transportVars>>

\* There are no others.
LEMMA EngineMoves ==
  ASSUME ResetInv, EngineNext
  PROVE  \/ Guarded
         \/ \E w \in Workers : Ends(w)
         \/ \E b \in Bookings : Posts(b)
         \/ \E a, b \in Bookings : SharePayment(a, b)
<1> USE DEF ResetInv, ResetTypeOK, TypeOK, IngressTypeOK
<1>1. ASSUME NEW w \in Workers, JobNotFound(w) PROVE Ends(w)
  BY <1>1 DEF JobNotFound, Ends, Spares, ingressVars
<1>2. ASSUME NEW w \in Workers, CacheElsewhere(w) PROVE Ends(w)
  <2>1. job[w] \in Bookings
    BY <1>2 DEF CacheElsewhere, Typed, BusyHasJob
  <2>2. StatusOf(body[w]) \in CacheStates
    BY DEF StatusOf, CacheStates, Terminal
  <2>3. Spares
    BY <1>2, <2>1, <2>2, WriteSpares DEF CacheElsewhere
  <2> QED
    BY <1>2, <2>3 DEF CacheElsewhere, Ends
<1>3. ASSUME NEW b \in Bookings, PostCachesElsewhere(b) PROVE Posts(b)
  <2>1. ASSUME cached' = cached PROVE Spares
    BY <2>1 DEF Spares
  <2>2. ASSUME WriteReply(b, "ACCEPTED") \/ WriteReply(b, "REJECTED") PROVE Spares
    BY <1>3, <2>2, WriteSpares DEF PostCachesElsewhere, CacheStates
  <2> QED
    BY <1>3, <2>1, <2>2 DEF PostCachesElsewhere, Posts
<1> QED
  BY <1>1, <1>2, <1>3 DEF EngineNext, Guarded

LEMMA GuardedIsNext == Guarded => Next
BY DEF Guarded, PostNext, Next, IngressNext

\* POST /api/book touches no seat, no payment and no invocation.
LEMMA PostTouches ==
  ASSUME NEW b \in Bookings, PostNext(b) \/ BrokerGivesUp(b)
  PROVE  UNCHANGED <<seatVars, payment, dlq>> /\ UNCHANGED workerVars
BY DEF PostNext, BrokerGivesUp, CreateBooking, PublishAllocateJob, PublishFails,
       MarkUnpublished, CacheRejected, CacheAccepted, Ingress, IngressDies, storeVars,
       seatVars, auditVars

\* A statement of one invocation moves no other.
LEMMA OnlyOneMoves ==
  ASSUME Typed, NEW w \in Workers, WorkerStep(w), NEW v \in Workers, v # w
  PROVE  pc'[v] = pc[v]
<1> USE DEF Typed, TypeOK, WorkerTypeOK
<1>1. CASE AlreadyTerminal(w) \/ ReleaseForRetry(w) \/ CacheAndRespond(w)
  BY <1>1 DEF AlreadyTerminal, ReleaseForRetry, CacheAndRespond, Respond, Finish
<1>2. CASE SeesPending(w) \/ ReuseHold(w) \/ NoHoldYet(w) \/ AllocateSeat(w) \/ SoldOut(w)
        \/ LookupPayment(w) \/ InsertPayment(w) \/ PaymentUnavailable(w) \/ ConfirmReads(w)
  BY <1>2
  DEF SeesPending, ReuseHold, NoHoldYet, AllocateSeat, SoldOut, LookupPayment, InsertPayment,
      PaymentUnavailable, ConfirmReads, Step
<1>3. CASE Confirm(w) \/ ConfirmSeatOnly(w) \/ ConfirmNothing(w) \/ Refund(w)
        \/ InsertDlqJob(w) \/ Unseat(w) \/ FailBooking(w)
  BY <1>3
  DEF Confirm, ConfirmSeatOnly, ConfirmNothing, Refund, InsertDlqJob, Unseat, FailBooking, Step
<1> QED
  BY <1>1, <1>2, <1>3 DEF WorkerStep

\* When an invocation moves it is by its own statement, or the tables stay as they are.
LEMMA WhoMoves ==
  ASSUME Typed, Guarded, NEW w \in Workers, pc'[w] # pc[w]
  PROVE  (~Refused(w) /\ WorkerStep(w)) \/ UNCHANGED storeVars
<1>1. ASSUME NEW b \in Bookings, PostNext(b) \/ BrokerGivesUp(b) PROVE FALSE
  BY <1>1, PostTouches DEF workerVars
<1>2. ASSUME NEW v \in Workers, WorkerStep(v) PROVE v = w
  BY <1>2, OnlyOneMoves
<1>3. ASSUME NEW v \in Workers, NEW b \in Bookings, Deliver(v, b) \/ DeliverCallback(v, b)
      PROVE  UNCHANGED storeVars
  BY <1>3 DEF Deliver, DeliverCallback
<1>4. ASSUME NEW v \in Workers, Throws(v) \/ Dies(v) PROVE UNCHANGED storeVars
  BY <1>4 DEF Throws, Dies
<1>5. ASSUME (\E s \in Seats : Expire(s)) \/ Sweep PROVE FALSE
  BY <1>5 DEF Expire, Sweep, workerVars
<1> QED
  BY <1>1, <1>2, <1>3, <1>4, <1>5 DEF Guarded

\* Only a booking whose charge has succeeded becomes CONFIRMED: the foreign key of
\* bookings sees to it when the payments row was deleted.
LEMMA ConfirmsPaidOnly ==
  ASSUME Typed, Guarded, NEW b \in Bookings,
         bookingStatus'[b] = "CONFIRMED", bookingStatus[b] # "CONFIRMED"
  PROVE  payment[b] = "succeeded"
<1>1. PICK w \in Workers : Confirm(w) /\ job[w] = b
  BY GuardedIsNext, NextKeeps DEF StoreKept
<1>2. pc'[w] # pc[w]
  BY <1>1 DEF Confirm, Step, Typed, TypeOK, WorkerTypeOK
<1>3. ~Refused(w)
  BY <1>2, WhoMoves DEF storeVars
<1>4. \E s \in Seats : CanSeal(w, s)
  BY <1>1 DEF Confirm
<1> QED
  BY <1>1, <1>3, <1>4 DEF Confirm, Refused, PaymentIsGone

\* A reply is cached for a booking somebody is at work for, in the row of its key.
LEMMA WritesOwn ==
  ASSUME Typed, Guarded, NEW b \in Bookings, cached'[b] # cached[b]
  PROVE  /\ ~Elsewhere(b)
         /\ ingress[b] # "idle" \/ \E w \in Workers : Serves(w, b)
<1> USE DEF Typed, TypeOK, IngressTypeOK
<1>1. ASSUME NEW c \in Bookings, PostNext(c) \/ BrokerGivesUp(c)
      PROVE  ~Elsewhere(b) /\ ingress[b] # "idle"
  <2>1. CASE ~Elsewhere(c) /\ (CacheRejected(c) \/ CacheAccepted(c))
    BY <2>1 DEF CacheRejected, CacheAccepted, Ingress
  <2>2. CASE CreateBooking(c) \/ PublishAllocateJob(c) \/ PublishFails(c) \/ MarkUnpublished(c)
          \/ IngressDies(c) \/ BrokerGivesUp(c)
    BY <2>2
    DEF CreateBooking, PublishAllocateJob, PublishFails, MarkUnpublished, IngressDies,
        BrokerGivesUp, ingressVars
  <2> QED
    BY <1>1, <2>1, <2>2 DEF PostNext
<1>2. ASSUME NEW w \in Workers, ~Refused(w), WorkerStep(w)
      PROVE  ~Elsewhere(b) /\ Serves(w, b)
  <2>1. CASE CacheAndRespond(w)
    BY <1>2, <2>1 DEF CacheAndRespond, Refused, Serves
  <2>2. CASE AlreadyTerminal(w) \/ ReleaseForRetry(w)
    BY <2>2 DEF AlreadyTerminal, ReleaseForRetry, ingressVars
  <2>3. CASE \E from, to : Step(w, from, to)
    BY <2>3 DEF Step, ingressVars
  <2> QED
    BY <1>2, <2>1, <2>2, <2>3
    DEF WorkerStep, SeesPending, ReuseHold, NoHoldYet, AllocateSeat, SoldOut, LookupPayment,
        InsertPayment, PaymentUnavailable, ConfirmReads, Confirm, ConfirmSeatOnly,
        ConfirmNothing, Refund, InsertDlqJob, Unseat, FailBooking
<1>3. ASSUME NEW w \in Workers, NEW c \in Bookings, Deliver(w, c) \/ DeliverCallback(w, c)
      PROVE  FALSE
  BY <1>3 DEF Deliver, DeliverCallback, ingressVars
<1>4. ASSUME NEW w \in Workers, Throws(w) \/ Dies(w) PROVE FALSE
  BY <1>4 DEF Throws, Dies, ingressVars
<1>5. ASSUME (\E s \in Seats : Expire(s)) \/ Sweep PROVE FALSE
  BY <1>5 DEF Expire, Sweep, ingressVars
<1> QED
  BY <1>1, <1>2, <1>3, <1>4, <1>5 DEF Guarded

\* A seat that gets a booking gets one that has a row.
LEMMA SeatsOfRows ==
  ASSUME Typed, Guarded, NEW s \in Seats
  PROVE  \/ seatBooking'[s] \in {seatBooking[s], NoBooking}
         \/ seatBooking'[s] \in Bookings /\ bookingStatus[seatBooking'[s]] # "ABSENT"
<1> USE DEF Typed, TypeOK, StoreTypeOK
<1>1. ASSUME UNCHANGED seatBooking \/ \E S \in SUBSET Seats : Vacate(S)
      PROVE  seatBooking'[s] \in {seatBooking[s], NoBooking}
  BY <1>1 DEF Vacate
<1>2. ASSUME NEW b \in Bookings, PostNext(b) \/ BrokerGivesUp(b) PROVE UNCHANGED seatBooking
  BY <1>2, PostTouches DEF seatVars
<1>3. ASSUME NEW w \in Workers, ~Refused(w), AllocateSeat(w)
      PROVE  \/ seatBooking'[s] = seatBooking[s]
             \/ seatBooking'[s] \in Bookings /\ bookingStatus[seatBooking'[s]] # "ABSENT"
  <2>1. PICK t \in Free : Reserve(t, job[w])
    BY <1>3 DEF AllocateSeat
  <2>2. pc[w] = "takeSeat" /\ job[w] \in Bookings
    BY <1>3 DEF AllocateSeat, Step, BusyHasJob
  <2>3. pc'[w] = "lookup"
    BY <1>3 DEF AllocateSeat, Step, WorkerTypeOK
  <2>4. bookingStatus[job[w]] # "ABSENT"
    BY <1>3, <2>2, <2>3 DEF Refused, Deleted
  <2> QED
    BY <2>1, <2>2, <2>4 DEF Reserve
<1>4. ASSUME NEW w \in Workers, WorkerStep(w), ~AllocateSeat(w)
      PROVE  UNCHANGED seatBooking \/ \E S \in SUBSET Seats : Vacate(S)
  <2>1. CASE ReleaseForRetry(w)
    BY <2>1 DEF ReleaseForRetry, release_hold_retryable, HeldBy
  <2>2. CASE FailBooking(w)
    <3>1. Vacate(rows[w] \cap HeldBy(job[w])) /\ rows[w] \cap HeldBy(job[w]) \in SUBSET Seats
      BY <2>2 DEF FailBooking, HeldBy
    <3> QED
      BY <3>1
  <2>3. CASE Confirm(w) \/ ConfirmSeatOnly(w) \/ InsertPayment(w)
    BY <2>3 DEF Confirm, ConfirmSeatOnly, SealSeat, InsertPayment, seatVars
  <2>4. CASE SeesPending(w) \/ AlreadyTerminal(w) \/ ReuseHold(w) \/ NoHoldYet(w)
          \/ SoldOut(w) \/ LookupPayment(w) \/ PaymentUnavailable(w) \/ ConfirmReads(w)
          \/ ConfirmNothing(w) \/ Refund(w) \/ InsertDlqJob(w) \/ Unseat(w) \/ CacheAndRespond(w)
    BY <2>4
    DEF SeesPending, AlreadyTerminal, ReuseHold, NoHoldYet, SoldOut, GoTerminal,
        LookupPayment, PaymentUnavailable, ConfirmReads, ConfirmNothing, Refund,
        InsertDlqJob, Unseat, CacheAndRespond, storeVars
  <2> QED
    BY <1>4, <2>1, <2>2, <2>3, <2>4 DEF WorkerStep
<1>5. ASSUME NEW w \in Workers, NEW b \in Bookings, Deliver(w, b) \/ DeliverCallback(w, b)
      PROVE  UNCHANGED seatBooking
  BY <1>5 DEF Deliver, DeliverCallback, storeVars
<1>6. ASSUME NEW w \in Workers, Throws(w) \/ Dies(w) PROVE UNCHANGED seatBooking
  BY <1>6 DEF Throws, Dies, storeVars
<1>7. ASSUME (\E t \in Seats : Expire(t)) \/ Sweep
      PROVE  UNCHANGED seatBooking \/ \E S \in SUBSET Seats : Vacate(S)
  BY <1>7 DEF Expire, HoldExpires, Sweep, sweep_expired_holds, ExpiredHolds
<1> QED
  BY <1>1, <1>2, <1>3, <1>4, <1>5, <1>6, <1>7 DEF Guarded

\* Who is named after a step was named before it, or its POST is under way.
NamesStarted ==
  /\ \A b \in Bookings : ingress[b] # "idle" => ingress'[b] # "idle"
  /\ \A b \in Bookings : ingress'[b] # "idle" =>
       ingress[b] # "idle" \/ bookingStatus'[b] # "ABSENT"
  /\ \A b \in Bookings : phase'[b] # "unpublished" =>
       phase[b] # "unpublished" \/ ingress[b] # "idle"
  /\ \A v \in Workers : pc'[v] # "idle" =>
       \/ pc[v] # "idle" /\ job'[v] = job[v]
       \/ job'[v] \in Bookings /\ phase[job'[v]] # "unpublished"

\* Every step of the engine.
LEMMA NextNamesStarted ==
  ASSUME Typed, [Next]_vars
  PROVE  NamesStarted
<1> USE DEF Typed, TypeOK, TransportTypeOK, WorkerTypeOK, IngressTypeOK, auditVars, ingressVars,
            workerVars, transportVars
<1>1. ASSUME NEW b \in Bookings, IngressNext(b) PROVE NamesStarted
  <2>1. CASE CreateBooking(b)
    BY <2>1 DEF CreateBooking, Ingress, InsertBooking, StoreTypeOK, NamesStarted
  <2>2. CASE PublishAllocateJob(b) \/ PublishFails(b)
    <3>1. ingress[b] # "idle" /\ ingress'[b] # "idle"
      BY <2>2 DEF PublishAllocateJob, PublishFails, Ingress
    <3>2. \A c \in Bookings : c # b => phase'[c] = phase[c] /\ ingress'[c] = ingress[c]
      BY <2>2 DEF PublishAllocateJob, PublishFails, Ingress, Enqueue
    <3>3. UNCHANGED <<pc, job>>
      BY <2>2 DEF PublishAllocateJob, PublishFails, Ingress
    <3> QED
      BY <3>1, <3>2, <3>3 DEF NamesStarted
  <2>3. CASE MarkUnpublished(b) \/ CacheRejected(b) \/ CacheAccepted(b) \/ IngressDies(b)
    BY <2>3
    DEF MarkUnpublished, CacheRejected, CacheAccepted, IngressDies, Ingress, NamesStarted
  <2> QED
    BY <1>1, <2>1, <2>2, <2>3 DEF IngressNext
<1>2. ASSUME NEW w \in Workers, pc[w] # "idle", NEW code \in {200, 489, 500}, Respond(w, code),
             ingress' = ingress
      PROVE  NamesStarted
  BY <1>2, AnswersMoveOld DEF NamesStarted
<1>3. ASSUME NEW w \in Workers, WorkerStep(w) PROVE NamesStarted
  <2>1. CASE AlreadyTerminal(w) \/ ReleaseForRetry(w) \/ CacheAndRespond(w)
    BY <1>2, <2>1 DEF AlreadyTerminal, ReleaseForRetry, CacheAndRespond
  <2>2. CASE \E from \in Steps \ {"idle"}, to \in Steps : Step(w, from, to)
    BY <2>2 DEF Step, NamesStarted
  <2>3. CASE SeesPending(w) \/ ReuseHold(w) \/ NoHoldYet(w) \/ AllocateSeat(w) \/ SoldOut(w)
          \/ LookupPayment(w) \/ InsertPayment(w) \/ PaymentUnavailable(w) \/ ConfirmReads(w)
          \/ Confirm(w) \/ ConfirmSeatOnly(w) \/ ConfirmNothing(w) \/ Refund(w) \/ Unseat(w)
          \/ FailBooking(w) \/ InsertDlqJob(w)
    BY <2>2, <2>3
    DEF SeesPending, ReuseHold, NoHoldYet, AllocateSeat, SoldOut, LookupPayment,
        InsertPayment, PaymentUnavailable, ConfirmReads, Confirm, ConfirmSeatOnly,
        ConfirmNothing, Refund, Unseat, FailBooking, InsertDlqJob, Steps
  <2> QED
    BY <1>3, <2>1, <2>3 DEF WorkerStep
<1>4. ASSUME NEW w \in Workers, NEW b \in Bookings, Deliver(w, b) \/ DeliverCallback(w, b)
      PROVE  NamesStarted
  BY <1>4 DEF Deliver, DeliverCallback, Move, NamesStarted
<1>5. ASSUME NEW w \in Workers, Throws(w) PROVE NamesStarted
  BY <1>2, <1>5 DEF Throws
<1>6. ASSUME NEW w \in Workers, Dies(w) PROVE NamesStarted
  BY <1>6 DEF Dies, Finish, NamesStarted
<1>7. ASSUME NEW b \in Bookings, BrokerGivesUp(b) PROVE NamesStarted
  BY <1>7 DEF BrokerGivesUp, GiveUpWaiting, RetryOrGiveUp, Move, NamesStarted
<1>8. ASSUME NEW s \in Seats, Expire(s) PROVE NamesStarted
  BY <1>8 DEF Expire, NamesStarted
<1>9. Sweep \/ UNCHANGED vars => NamesStarted
  BY DEF Sweep, vars, NamesStarted
<1> QED
  BY <1>1, <1>3, <1>4, <1>5, <1>6, <1>7, <1>8, <1>9 DEF Next

-----------------------------------------------------------------------------
(* The invariant is kept. *)

\* What a step that is not one of the reset's does, as far as the replies care.
Effects ==
  /\ Typed' /\ StoreKept /\ RowsStay /\ NamesStarted
  /\ HonestSteps /\ OneAdvances /\ BrokerSteps
  /\ \A b \in Bookings : SoldByServer(b)
  /\ refunded \subseteq refunded'
  /\ UNCHANGED <<reset, kept>>
  /\ \A b \in Bookings : Unshared(b)' =>
       /\ Unshared(b)
       /\ CachesFor(b)
       /\ ingress[b] = "idle" => cached'[b] \in {cached[b], "none"}
       /\ b \in forgotten => b \in forgotten'

\* The broker and the invocations keep to what they are allowed.
LEMMA OrderKept ==
  ASSUME ResetInv, Effects
  PROVE  Started' /\ BodyIsFresh' /\ Blank' /\ CallsBack'
<1> USE DEF ResetInv, Effects
<1>0. \A w \in Workers : pc[w] # "idle" => job[w] \in Bookings
  BY DEF Typed, BusyHasJob
<1>1. Started'
  <2>1. \A w \in Workers : pc'[w] # "idle" => ingress'[job'[w]] # "idle"
    BY <1>0 DEF Started, NamesStarted
  <2>2. \A b \in Bookings : ingress'[b] \in {"idle", "created"} => phase'[b] = "unpublished"
    BY DEF Started, BrokerSteps
  <2> QED
    BY <2>1, <2>2 DEF Started
<1>2. BodyIsFresh'
  BY DEF BodyIsFresh, HonestSteps
<1>3. Blank'
  <2>1. \A w \in Workers : pc'[w] = "idle" => body'[w] = "none"
    BY DEF Blank, HonestSteps
  <2>2. ASSUME NEW b \in Bookings, ingress'[b] = "idle", Unshared(b)' PROVE cached'[b] = "none"
    BY <2>2 DEF Blank, NamesStarted
  <2> QED
    BY <2>1, <2>2 DEF Blank
<1>4. CallsBack'
  <2> SUFFICES ASSUME NEW w \in Workers, pc'[w] = "dlq" PROVE phase'[job'[w]] \in Over
    BY DEF CallsBack
  <2>1. CASE pc[w] = "dlq" /\ job'[w] = job[w]
    <3>1. phase[job[w]] \in Over /\ job[w] \in Bookings
      BY <1>0, <2>1 DEF CallsBack
    <3>2. ingress[job[w]] # "created"
      BY <3>1 DEF Started, Over
    <3> QED
      BY <2>1, <3>1, <3>2 DEF BrokerSteps
  <2>2. CASE ~(pc[w] = "dlq" /\ job'[w] = job[w])
    BY <2>2 DEF OneAdvances, Advances, Over
  <2> QED
    BY <2>1, <2>2
<1> QED
  BY <1>1, <1>2, <1>3, <1>4

\* What disturbs a booking is not forgotten.
LEMMA DisturbedBefore ==
  ASSUME ResetInv, Effects, NEW b \in Bookings, ~Disturbed(b)'
  PROVE  ~Disturbed(b) /\ attempt'[b] = 0
BY DEF ResetInv, Effects, Disturbed, BrokerSteps, Over, Started, Typed, TypeOK, TransportTypeOK

\* One delivery, one invocation.
LEMMA UndisturbedKept ==
  ASSUME ResetInv, Effects
  PROVE  Undisturbed'
<1> SUFFICES ASSUME NEW b \in Bookings, Unshared(b)', ~Disturbed(b)'
             PROVE  Lone(b)'
  BY DEF Undisturbed
<1>1. ~Disturbed(b) /\ attempt'[b] = 0
  BY DisturbedBefore
<1>2. Unshared(b) /\ CachesFor(b) /\ SoldByServer(b) /\ OneAdvances /\ BrokerSteps
  BY DEF Effects
<1>3. Typed /\ Lone(b) /\ \A w \in Workers : pc[w] = "idle" => body[w] = "none"
  BY <1>1, <1>2 DEF ResetInv, Undisturbed, Blank
<1>4. \A w \in Workers : Serves(w, b) => pc[w] # "dlq"
  BY <1>1 DEF ResetInv, CallsBack, Serves, Disturbed, Over
<1> QED
  BY <1>1, <1>2, <1>3, <1>4, LoneKept

\* What is said of the bookings that came after the keys were deleted stays true.
LEMMA AnewKept ==
  ASSUME ResetInv, Effects
  PROVE  Anew'
<1> SUFFICES ASSUME reset' \in {"idle", "dlq", "done"}, NEW b \in Bookings,
                    Unshared(b)', b \notin forgotten' \cup kept'
             PROVE  /\ ingress'[b] # "idle" => bookingStatus'[b] # "ABSENT"
                    /\ HonestFor(b)'
                    /\ OutcomeIsReal(b, Disturbed(b))'
  BY DEF Anew
<1>0. /\ Unshared(b) /\ CachesFor(b) /\ b \notin forgotten \cup kept
      /\ StoreKept /\ RowsStay /\ refunded \subseteq refunded' /\ OneAdvances
      /\ reset \in {"idle", "dlq", "done"}
  BY DEF Effects
<1>1. /\ ingress[b] # "idle" => bookingStatus[b] # "ABSENT"
      /\ HonestFor(b)
      /\ OutcomeIsReal(b, Disturbed(b))
  BY <1>0 DEF ResetInv, Anew
<1>2. ingress'[b] # "idle" => bookingStatus'[b] # "ABSENT"
  BY <1>0, <1>1 DEF RowsStay, Effects, NamesStarted
<1>3. HonestFor(b)'
  <2> SUFFICES ASSUME NEW w \in Workers, Serves(w, b)'
               PROVE  /\ body'[w] = "CONFIRMED" => bookingStatus'[b] = "CONFIRMED"
                      /\ Failing(w)' => bookingStatus'[b] \in Terminal
                      /\ body'[w] = "EXPIRED" => b \in refunded'
    BY DEF HonestFor
  <2>1. bookingStatus'[b] # "ABSENT"
    BY <1>2, OrderKept DEF Started, Serves
  <2>2. pc'[w] # "idle" /\ job'[w] = b
    BY DEF Serves
  <2>3. CASE UNCHANGED <<pc[w], job[w], body[w]>>
    <3>1. Serves(w, b)
      BY <2>2, <2>3 DEF Serves
    <3> QED
      BY <1>0, <1>1, <2>3, <3>1 DEF HonestFor, Failing, StoreKept, Terminal
  <2>4. CASE ~UNCHANGED <<pc[w], job[w], body[w]>>
    <3>1. /\ body'[w] = "CONFIRMED" => bookingStatus'[b] = "CONFIRMED"
          /\ Failing(w)' => bookingStatus'[b] \in Terminal
      BY <2>1, <2>2, <2>4 DEF Effects, HonestSteps
    <3>2. ASSUME body'[w] = "EXPIRED" PROVE b \in refunded'
      <4>1. \/ b \in refunded'
            \/ body[w] = "EXPIRED" /\ (job[w] = b \/ pc[w] = "idle")
        BY <2>2, <3>2 DEF Effects, HonestSteps
      <4>2. pc[w] = "idle" => body[w] = "none"
        BY DEF ResetInv, Blank
      <4> QED
        BY <1>0, <1>1, <4>1, <4>2 DEF HonestFor, Serves
    <3> QED
      BY <3>1, <3>2
  <2> QED
    BY <2>3, <2>4
<1>4. OutcomeIsReal(b, Disturbed(b))'
  <2>1. Disturbed(b) => Disturbed(b)'
    BY DisturbedBefore
  <2>2. bookingStatus[b] = "CONFIRMED" =>
          Disturbed(b)' \/ \A w \in Workers : Serves(w, b) => ~Failing(w)
    <3>1. CASE Disturbed(b)
      BY <2>1, <3>1
    <3>2. CASE ~Disturbed(b)
      BY <1>0, <3>2 DEF ResetInv, Undisturbed, Lone, Serves, Sold, Failing
    <3> QED
      BY <3>1, <3>2
  <2>3. Disturbed(b) \in BOOLEAN /\ Disturbed(b)' \in BOOLEAN
    BY DEF Disturbed
  <2>4. /\ cached'[b] = "CONFIRMED" => bookingStatus'[b] = "CONFIRMED"
        /\ cached'[b] = "FAILED" =>
             \/ bookingStatus'[b] \in {"FAILED", "EXPIRED"}
             \/ bookingStatus'[b] = "CONFIRMED" /\ Disturbed(b)'
        /\ cached'[b] = "EXPIRED" => b \in refunded'
    BY <1>0, <1>1, <2>1, <2>2, <2>3, OutcomeKept
  <2> QED
    BY <2>4 DEF OutcomeIsReal
<1> QED
  BY <1>2, <1>3, <1>4

\* A booking becomes CONFIRMED by an invocation that serves it.
LEMMA KeptIsServed ==
  ASSUME Typed, StoreKept
  PROVE  \A b \in Bookings : SoldByServer(b)
BY DEF SoldByServer, StoreKept, Confirm, Step, Serves, Typed, TypeOK, WorkerTypeOK

\* By a guarded step of the engine.
LEMMA GuardedKeeps ==
  ASSUME ResetInv, Guarded, UNCHANGED resetVars
  PROVE  ResetInv'
<1>0. /\ [Next]_vars /\ Typed /\ ResetTypeOK /\ Started /\ BodyIsFresh
      /\ UNCHANGED <<reset, key, forgotten, kept>>
  BY GuardedIsNext DEF ResetInv, resetVars, keyVars
<1>1. Typed' /\ ResetTypeOK'
  BY <1>0, TypedStep DEF ResetTypeOK, Typed
<1>2. StoreKept /\ RowsStay /\ NamesStarted
  BY <1>0, NextKeeps, NextRowsStay, NextNamesStarted
<1>3. HonestSteps /\ CachesTruth /\ BrokerSteps /\ Remembers /\ OneAdvances
  BY <1>0, NextHonest, NextBroker, NextAdvances
<1>4. \A b \in Bookings : cached'[b] # cached[b] => ~Elsewhere(b) /\ ingress[b] # "idle"
  BY <1>0, WritesOwn DEF Started, Serves
<1>5. Effects
  <2>1. \A b \in Bookings : SoldByServer(b)
    BY <1>0, <1>2, KeptIsServed
  <2>2. refunded \subseteq refunded'
    BY <1>3 DEF Remembers
  <2>3. \A b \in Bookings : Unshared(b)' =>
          /\ Unshared(b)
          /\ CachesFor(b)
          /\ ingress[b] = "idle" => cached'[b] \in {cached[b], "none"}
          /\ b \in forgotten => b \in forgotten'
    BY <1>0, <1>3, <1>4 DEF Unshared, CachesTruth
  <2> QED
    BY <1>0, <1>1, <1>2, <1>3, <2>1, <2>2, <2>3 DEF Effects
<1>6. NoDangling'
  <2>1. \A s \in Seats : seatBooking[s] \in Bookings \cup {NoBooking}
    BY <1>0 DEF Typed, TypeOK, StoreTypeOK
  <2> QED
    BY <1>0, <1>2, <2>1, SeatsOfRows DEF ResetInv, NoDangling, RowsStay
<1>7. ResetKeepsSaleConsistent'
  <2> SUFFICES ASSUME reset \notin {"bookings", "half"}
               PROVE  ConfirmedHasSeat' /\ PaidBeforeConfirmed'
    BY <1>0 DEF ResetKeepsSaleConsistent
  <2>1. ConfirmedHasSeat /\ PaidBeforeConfirmed
    BY DEF ResetInv, ResetKeepsSaleConsistent
  <2>2. ConfirmedHasSeat'
    BY <1>0, <2>1, SeatStep
  <2>3. PaidBeforeConfirmed'
    BY <1>0, <1>2, <2>1, ConfirmsPaidOnly DEF PaidBeforeConfirmed, StoreKept
  <2> QED
    BY <2>2, <2>3
<1>8. KeysDeleted'
  <2> SUFFICES ASSUME NEW k \in forgotten PROVE cached'[k] = "none"
    BY <1>0 DEF KeysDeleted
  <2>1. k \in Bookings /\ cached[k] = "none"
    BY <1>0 DEF ResetInv, ResetTypeOK, KeysDeleted
  <2>2. key[k] = k => Elsewhere(k)
    BY DEF Elsewhere
  <2> QED
    BY <1>4, <2>1, <2>2 DEF Elsewhere
<1> QED
  BY <1>1, <1>5, <1>6, <1>7, <1>8, OrderKept, UndisturbedKept, AnewKept DEF ResetInv

\* What else the invariant asks of a step that leaves seats and bookings alone.
LEMMA SaleStands ==
  ASSUME ResetInv, StoreKept, reset' = reset, UNCHANGED seatVars, UNCHANGED bookingVars
  PROVE  NoDangling' /\ ResetKeepsSaleConsistent'
BY DEF ResetInv, StoreKept, NoDangling, ResetKeepsSaleConsistent, ConfirmedHasSeat,
       PaidBeforeConfirmed, seatVars, bookingVars

\* By an invocation that ends and writes to no row of its own.
LEMMA EndsKeeps ==
  ASSUME ResetInv, NEW w \in Workers, Ends(w), UNCHANGED resetVars
  PROVE  ResetInv'
<1>0. /\ Typed /\ ResetTypeOK /\ UNCHANGED <<reset, key, forgotten, kept>>
      /\ UNCHANGED storeVars /\ UNCHANGED seatVars /\ UNCHANGED bookingVars
      /\ UNCHANGED <<ingress, dlq, refunded>>
      /\ pc[w] # "idle" /\ Finish(w) /\ Spares
  BY DEF ResetInv, resetVars, keyVars, Ends, auditVars, Respond, storeVars, seatVars, bookingVars
<1>1. Typed' /\ ResetTypeOK'
  <2>1. TransportTypeOK' /\ WorkerTypeOK' /\ BusyHasJob'
    BY <1>0, RespondType DEF Ends
  <2>2. StoreTypeOK' /\ IngressTypeOK'
    BY <1>0 DEF Typed, TypeOK, StoreTypeOK, IngressTypeOK, storeVars, Spares
  <2> QED
    BY <1>0, <2>1, <2>2 DEF ResetTypeOK, Typed, TypeOK
<1>2. StoreKept /\ RowsStay
  BY <1>0, StoreUnchanged DEF RowsStay, storeVars
<1>3. NamesStarted
  BY <1>0, AnswersMoveOld DEF Ends, NamesStarted
<1>4. HonestSteps /\ OneAdvances
  BY <1>0 DEF Typed, TypeOK, WorkerTypeOK, Finish, HonestSteps, Failing, OneAdvances, Advances
<1>5. BrokerSteps
  BY <1>0, AnswersCount DEF Ends
<1>6. Effects
  BY <1>0, <1>1, <1>2, <1>3, <1>4, <1>5, KeptIsServed
  DEF Effects, Spares, CachesFor, Unshared
<1>7. KeysDeleted'
  BY <1>0 DEF ResetInv, ResetTypeOK, KeysDeleted, Spares
<1> QED
  BY <1>0, <1>1, <1>2, <1>6, <1>7, SaleStands, OrderKept, UndisturbedKept, AnewKept DEF ResetInv

\* What a step does that moves no message and no invocation.
LEMMA StandsStill ==
  ASSUME Typed, UNCHANGED transportVars, UNCHANGED workerVars, UNCHANGED bookingVars,
         \A b \in Bookings :
           \/ ingress'[b] = ingress[b]
           \/ ingress[b] \notin {"idle", "created"} /\ ingress'[b] \notin {"idle", "created"}
  PROVE  RowsStay /\ NamesStarted /\ HonestSteps /\ OneAdvances /\ BrokerSteps
<1>1. RowsStay /\ HonestSteps /\ OneAdvances
  BY DEF RowsStay, HonestSteps, OneAdvances, Advances, workerVars, bookingVars, Failing
<1>2. NamesStarted /\ BrokerSteps
  BY DEF NamesStarted, BrokerSteps, transportVars, workerVars
<1> QED
  BY <1>1, <1>2

\* By a POST whose row is gone.
LEMMA PostKeeps ==
  ASSUME ResetInv, NEW b \in Bookings, Posts(b), UNCHANGED resetVars
  PROVE  ResetInv'
<1>0. /\ Typed /\ ResetTypeOK /\ UNCHANGED <<reset, key, forgotten, kept>>
      /\ UNCHANGED storeVars /\ UNCHANGED transportVars /\ UNCHANGED workerVars
      /\ UNCHANGED seatVars /\ UNCHANGED bookingVars
      /\ UNCHANGED <<dlq, refunded>> /\ Spares
      /\ ingress[b] \notin {"idle", "created"}
      /\ \E to \in {"accepted", "rejected"} : ingress' = [ingress EXCEPT ![b] = to]
  BY DEF ResetInv, resetVars, keyVars, Posts, Ingress, auditVars, storeVars, seatVars, bookingVars
<1>1. \A c \in Bookings :
        \/ ingress'[c] = ingress[c]
        \/ ingress[c] \notin {"idle", "created"} /\ ingress'[c] \notin {"idle", "created"}
  BY <1>0 DEF Typed, TypeOK, IngressTypeOK
<1>2. Typed' /\ ResetTypeOK'
  <2>1. StoreTypeOK' /\ TransportTypeOK' /\ WorkerTypeOK' /\ BusyHasJob'
    BY <1>0
    DEF Typed, TypeOK, StoreTypeOK, TransportTypeOK, WorkerTypeOK, BusyHasJob, storeVars,
        transportVars, workerVars
  <2>2. IngressTypeOK'
    BY <1>0 DEF Typed, TypeOK, IngressTypeOK, IngressStates, Spares
  <2> QED
    BY <1>0, <2>1, <2>2 DEF ResetTypeOK, Typed, TypeOK
<1>3. StoreKept
  BY <1>0, StoreUnchanged
<1>4. RowsStay /\ NamesStarted /\ HonestSteps /\ OneAdvances /\ BrokerSteps
  BY <1>0, <1>1, StandsStill
<1>5. Effects
  BY <1>0, <1>2, <1>3, <1>4, KeptIsServed DEF Effects, Spares, CachesFor, Unshared
<1>6. KeysDeleted'
  BY <1>0 DEF ResetInv, ResetTypeOK, KeysDeleted, Spares
<1> QED
  BY <1>0, <1>2, <1>3, <1>5, <1>6, SaleStands, OrderKept, UndisturbedKept, AnewKept DEF ResetInv

\* By a charge that is found under a shared key.
LEMMA ShareKeeps ==
  ASSUME ResetInv, NEW a \in Bookings, NEW b \in Bookings, SharePayment(a, b),
         UNCHANGED resetVars
  PROVE  ResetInv'
<1>0. /\ Typed /\ ResetTypeOK /\ UNCHANGED <<reset, key, forgotten, kept>>
      /\ UNCHANGED transportVars /\ UNCHANGED workerVars
      /\ UNCHANGED seatVars /\ UNCHANGED bookingVars
      /\ UNCHANGED <<ingress, cached, dlq, refunded>>
      /\ payment[b] = "none" /\ payment' = [payment EXCEPT ![b] = payment[a]]
  BY DEF ResetInv, resetVars, keyVars, SharePayment, ingressVars, auditVars
<1>1. Typed' /\ ResetTypeOK'
  <2>1. StoreTypeOK' /\ TransportTypeOK' /\ WorkerTypeOK' /\ BusyHasJob' /\ IngressTypeOK'
    BY <1>0
    DEF Typed, TypeOK, StoreTypeOK, TransportTypeOK, WorkerTypeOK, BusyHasJob, IngressTypeOK,
        seatVars, bookingVars, transportVars, workerVars
  <2> QED
    BY <1>0, <2>1 DEF ResetTypeOK, Typed, TypeOK
<1>2. StoreKept
  BY <1>0 DEF StoreKept, seatVars, bookingVars, Typed, TypeOK, StoreTypeOK
<1>3. RowsStay /\ NamesStarted /\ HonestSteps /\ OneAdvances /\ BrokerSteps
  BY <1>0, StandsStill
<1>4. Effects
  BY <1>0, <1>1, <1>2, <1>3, KeptIsServed DEF Effects, CachesFor, Unshared
<1>5. KeysDeleted'
  BY <1>0 DEF ResetInv, KeysDeleted
<1> QED
  BY <1>0, <1>1, <1>2, <1>4, <1>5, SaleStands, OrderKept, UndisturbedKept, AnewKept DEF ResetInv

\* By a POST of a key whose row was deleted: it and the booking that comes with it
\* are shared from then on.
LEMMA AgainKeeps ==
  ASSUME ResetInv, NEW b \in Bookings, NEW c \in Bookings, PostAgain(b, c)
  PROVE  ResetInv'
<1>0. /\ Typed /\ ResetTypeOK /\ UNCHANGED <<reset, kept>>
      /\ UNCHANGED storeVars /\ UNCHANGED transportVars /\ UNCHANGED workerVars
      /\ UNCHANGED seatVars /\ UNCHANGED bookingVars
      /\ UNCHANGED <<ingress, cached, dlq, refunded>>
      /\ key[b] \in forgotten /\ c \notin forgotten /\ Unshared(c)
      /\ key' = [key EXCEPT ![c] = key[b]]
      /\ forgotten' = forgotten \ {key[b]}
  BY DEF ResetInv, PostAgain, vars, storeVars, ingressVars, auditVars, seatVars, bookingVars,
         Unshared
<1>1. Typed' /\ ResetTypeOK'
  <2>1. StoreTypeOK' /\ TransportTypeOK' /\ WorkerTypeOK' /\ BusyHasJob' /\ IngressTypeOK'
    BY <1>0
    DEF Typed, TypeOK, StoreTypeOK, TransportTypeOK, WorkerTypeOK, BusyHasJob, IngressTypeOK,
        storeVars, transportVars, workerVars
  <2> QED
    BY <1>0, <2>1 DEF ResetTypeOK, Typed, TypeOK
<1>2. StoreKept
  BY <1>0, StoreUnchanged
<1>3. RowsStay /\ NamesStarted /\ HonestSteps /\ OneAdvances /\ BrokerSteps
  BY <1>0, StandsStill
<1>4. \A a \in Bookings : Unshared(a)' => Unshared(a) /\ a # key[b]
  <2>1. key[c] = c /\ key[b] # c /\ b # c /\ key[b] \in Bookings
    BY <1>0 DEF Unshared, ResetTypeOK
  <2>2. \A a \in Bookings : key'[a] = IF a = c THEN key[b] ELSE key[a]
    BY <1>0 DEF ResetTypeOK
  <2> QED
    BY <2>1, <2>2 DEF Unshared
<1>5. Effects
  BY <1>0, <1>1, <1>2, <1>3, <1>4, KeptIsServed DEF Effects, CachesFor
<1>6. KeysDeleted'
  BY <1>0 DEF ResetInv, KeysDeleted
<1> QED
  BY <1>0, <1>1, <1>2, <1>5, <1>6, SaleStands, OrderKept, UndisturbedKept, AnewKept DEF ResetInv

\* What a statement of the reset leaves alone: the broker and the invocations.
LEMMA ResetLeaves ==
  ASSUME ResetNext
  PROVE  UNCHANGED transportVars /\ UNCHANGED workerVars /\ UNCHANGED <<ingress, refunded>>
BY DEF ResetNext, ResetSeats, DeleteBookings, DeleteBookingsFails, DeletePayments, DeleteKeys,
       DeleteDlq, ResetDies, ResetStep, ingressVars, auditVars

\* All variables keep their types in it.
LEMMA ResetTypes ==
  ASSUME ResetInv, ResetNext
  PROVE  Typed' /\ ResetTypeOK'
<1> USE DEF ResetInv, ResetTypeOK, Typed, TypeOK, StoreTypeOK, IngressTypeOK, ResetStates, keyVars
<1>1. TransportTypeOK' /\ WorkerTypeOK' /\ BusyHasJob'
  BY ResetLeaves
  DEF TransportTypeOK, WorkerTypeOK, BusyHasJob, transportVars, workerVars
<1>2. ASSUME ResetSeats PROVE StoreTypeOK' /\ IngressTypeOK' /\ ResetTypeOK'
  <2>1. Vacate(Seats) /\ UNCHANGED <<bookingStatus, bookingSeat, payment>>
    BY <1>2 DEF ResetSeats, bookingVars
  <2>2. StoreTypeOK'
    BY <2>1, SeatTypes
  <2> QED
    BY <1>1, <1>2, <2>2 DEF ResetSeats, ingressVars, auditVars
<1>3. ASSUME DeleteBookings PROVE StoreTypeOK' /\ IngressTypeOK' /\ ResetTypeOK'
  BY <1>1, <1>3 DEF DeleteBookings, ResetStep, seatVars, BookingStates
<1>4. ASSUME DeletePayments PROVE StoreTypeOK' /\ IngressTypeOK' /\ ResetTypeOK'
  BY <1>1, <1>4 DEF DeletePayments, ResetStep, seatVars, bookingVars, PaymentStates
<1>5. ASSUME DeleteKeys PROVE StoreTypeOK' /\ IngressTypeOK' /\ ResetTypeOK'
  BY <1>1, <1>5 DEF DeleteKeys, ResetStep, storeVars, CacheStates
<1>6. ASSUME DeleteBookingsFails \/ DeleteDlq \/ ResetDies
      PROVE  StoreTypeOK' /\ IngressTypeOK' /\ ResetTypeOK'
  BY <1>1, <1>6 DEF DeleteBookingsFails, DeleteDlq, ResetDies, ResetStep, storeVars
<1> QED
  BY <1>1, <1>2, <1>3, <1>4, <1>5, <1>6 DEF ResetNext

\* The statements of a reset leave the broker, the invocations and the POSTs alone,
\* and delete what Lone asks to be so or not to be there.
LEMMA ResetOrder ==
  ASSUME ResetInv, UNCHANGED transportVars, UNCHANGED workerVars, UNCHANGED <<ingress, key>>,
         \A b \in Bookings : bookingStatus'[b] \in {bookingStatus[b], "ABSENT"},
         \A b \in Bookings : cached'[b] \in {cached[b], "none"}
  PROVE  Started' /\ BodyIsFresh' /\ Blank' /\ CallsBack' /\ Undisturbed'
<1> USE DEF transportVars, workerVars
<1>1. Started' /\ BodyIsFresh' /\ CallsBack'
  BY DEF ResetInv, Started, BodyIsFresh, CallsBack
<1>2. Blank'
  BY DEF ResetInv, Blank, Unshared
<1>3. \A b \in Bookings : (Unshared(b)' => Unshared(b)) /\ (Disturbed(b)' <=> Disturbed(b))
  BY DEF Unshared, Disturbed
<1>4. \A b \in Bookings : Lone(b) => Lone(b)'
  BY DEF Lone, Serves, InCallback, Sold, Failing
<1> QED
  BY <1>1, <1>2, <1>3, <1>4 DEF ResetInv, Undisturbed

\* The seats are freed first and the bookings deleted next, which the foreign key
\* allows only when no seat was taken in between.
LEMMA ResetKeeps ==
  ASSUME ResetInv, ResetNext
  PROVE  ResetInv'
<1> USE DEF keyVars
<1>1. Typed' /\ ResetTypeOK'
  BY ResetTypes
<1>2. UNCHANGED transportVars /\ UNCHANGED workerVars /\ UNCHANGED <<ingress, refunded>>
  BY ResetLeaves
<1>3. /\ key' = key
      /\ \A b \in Bookings : bookingStatus'[b] \in {bookingStatus[b], "ABSENT"}
      /\ \A b \in Bookings : cached'[b] \in {cached[b], "none"}
  BY DEF ResetNext, ResetSeats, DeleteBookings, DeleteBookingsFails, DeletePayments, DeleteKeys,
         DeleteDlq, ResetDies, ResetStep, storeVars, bookingVars, ingressVars
<1>4. Started' /\ BodyIsFresh' /\ Blank' /\ CallsBack' /\ Undisturbed'
  BY <1>2, <1>3, ResetOrder
<1>5. ASSUME ResetSeats PROVE ResetInv'
  <2>1. /\ Vacate(Seats) /\ reset' = "bookings" /\ forgotten' = forgotten
        /\ cached' = cached
    BY <1>5 DEF ResetSeats, ingressVars
  <2>2. NoDangling'
    BY <2>1 DEF Vacate, NoDangling
  <2> QED
    BY <1>1, <1>4, <2>1, <2>2 DEF ResetInv, ResetKeepsSaleConsistent, KeysDeleted, Anew
<1>6. ASSUME DeleteBookings PROVE ResetInv'
  <2>1. /\ reset' = "payments" /\ forgotten' = forgotten /\ cached' = cached
        /\ Referenced = {} /\ seatBooking' = seatBooking
        /\ bookingStatus' = [b \in Bookings |-> "ABSENT"]
    BY <1>6 DEF DeleteBookings, ResetStep, seatVars
  <2>2. NoDangling'
    BY <2>1 DEF Referenced, NoDangling
  <2>3. ResetKeepsSaleConsistent'
    BY <2>1 DEF ResetKeepsSaleConsistent, ConfirmedHasSeat, PaidBeforeConfirmed
  <2> QED
    BY <1>1, <1>4, <2>1, <2>2, <2>3 DEF ResetInv, KeysDeleted, Anew
<1>7. ASSUME DeleteBookingsFails \/ ResetDies PROVE ResetInv'
  <2>1. /\ UNCHANGED storeVars /\ UNCHANGED <<forgotten, cached>>
        /\ \/ reset' = "half"
           \/ reset' = "stopped" /\ reset \in {"payments", "keys", "dlq"}
    BY <1>7 DEF DeleteBookingsFails, ResetDies, ResetStep
  <2>2. NoDangling' /\ KeysDeleted'
    BY <2>1 DEF ResetInv, NoDangling, KeysDeleted, storeVars
  <2>3. ResetKeepsSaleConsistent'
    BY <2>1
    DEF ResetInv, ResetKeepsSaleConsistent, ConfirmedHasSeat, PaidBeforeConfirmed, storeVars
  <2> QED
    BY <1>1, <1>4, <2>1, <2>2, <2>3 DEF ResetInv, Anew
<1>8. ASSUME DeletePayments PROVE ResetInv'
  <2>1. /\ UNCHANGED seatVars /\ UNCHANGED bookingVars /\ UNCHANGED <<forgotten, cached>>
        /\ reset = "payments" /\ reset' \in {"keys", "stopped"}
        /\ \/ \A b \in Bookings : bookingStatus[b] # "CONFIRMED"
           \/ payment' = payment
    BY <1>8 DEF DeletePayments, ResetStep
  <2>2. NoDangling' /\ KeysDeleted'
    BY <2>1 DEF ResetInv, NoDangling, KeysDeleted, seatVars, bookingVars
  <2>3. ResetKeepsSaleConsistent'
    BY <2>1
    DEF ResetInv, ResetKeepsSaleConsistent, ConfirmedHasSeat, PaidBeforeConfirmed, seatVars,
        bookingVars
  <2> QED
    BY <1>1, <1>4, <2>1, <2>2, <2>3 DEF ResetInv, Anew
<1>9. ASSUME DeleteKeys PROVE ResetInv'
  <2>1. PICK recent \in SUBSET {key[b] : b \in Bookings} :
          /\ UNCHANGED storeVars /\ reset = "keys" /\ reset' = "dlq"
          /\ forgotten' = forgotten \cup recent
          /\ cached' = [k \in Bookings |-> IF k \in recent THEN "none" ELSE cached[k]]
          /\ kept' = (kept \cup {key[b] : b \in {c \in Bookings : ingress[c] # "idle"}}) \ forgotten'
    BY <1>9 DEF DeleteKeys, ResetStep
  <2>2. NoDangling' /\ ResetKeepsSaleConsistent'
    BY <2>1
    DEF ResetInv, NoDangling, ResetKeepsSaleConsistent, ConfirmedHasSeat, PaidBeforeConfirmed,
        storeVars
  <2>3. KeysDeleted'
    BY <1>1, <2>1 DEF ResetInv, ResetTypeOK, KeysDeleted
  <2>4. ASSUME NEW b \in Bookings, Unshared(b)', b \notin forgotten' \cup kept'
        PROVE  /\ ingress'[b] = "idle"
               /\ HonestFor(b)'
               /\ OutcomeIsReal(b, Disturbed(b))'
    <3>1. key[b] = b /\ Unshared(b)
      BY <1>3, <2>4 DEF Unshared
    <3>2. ingress[b] = "idle" /\ ingress'[b] = "idle"
      BY <1>2, <2>1, <2>4, <3>1
    <3>3. \A w \in Workers : ~Serves(w, b)'
      BY <1>4, <3>2 DEF Started, Serves
    <3>4. cached'[b] = "none"
      BY <2>1, <3>1, <3>2 DEF ResetInv, Blank
    <3> QED
      BY <3>2, <3>3, <3>4 DEF HonestFor, OutcomeIsReal
  <2>5. Anew'
    BY <2>4 DEF Anew
  <2> QED
    BY <1>1, <1>4, <2>2, <2>3, <2>5 DEF ResetInv
<1>10. ASSUME DeleteDlq PROVE ResetInv'
  <2>1. /\ UNCHANGED storeVars /\ reset = "dlq" /\ reset' = "done"
        /\ UNCHANGED <<cached, forgotten, kept>>
    BY <1>10 DEF DeleteDlq, ResetStep
  <2>2. NoDangling' /\ KeysDeleted' /\ ResetKeepsSaleConsistent'
    BY <2>1
    DEF ResetInv, NoDangling, KeysDeleted, ResetKeepsSaleConsistent, ConfirmedHasSeat,
        PaidBeforeConfirmed, storeVars
  <2>3. Anew'
    BY <1>2, <1>3, <2>1
    DEF ResetInv, Anew, HonestFor, OutcomeIsReal, Disturbed, Unshared, Serves, Failing,
        storeVars, transportVars, workerVars
  <2> QED
    BY <1>1, <1>4, <2>2, <2>3 DEF ResetInv
<1> QED
  BY <1>5, <1>6, <1>7, <1>8, <1>9, <1>10 DEF ResetNext

\* ResetInv is inductive.
LEMMA DemoStep == ResetInv /\ [DemoNext]_demoVars => ResetInv'
<1> SUFFICES ASSUME ResetInv, [DemoNext]_demoVars PROVE ResetInv'
  OBVIOUS
<1>1. CASE UNCHANGED demoVars
  <2>1. /\ UNCHANGED vars /\ UNCHANGED <<reset, key, forgotten, kept>>
        /\ UNCHANGED storeVars /\ UNCHANGED transportVars /\ UNCHANGED workerVars
        /\ UNCHANGED seatVars /\ UNCHANGED bookingVars
        /\ UNCHANGED <<ingress, cached, dlq, refunded>>
    BY <1>1
    DEF demoVars, resetVars, keyVars, vars, ingressVars, auditVars, storeVars, seatVars, bookingVars
  <2>2. Typed' /\ ResetTypeOK'
    BY <2>1, TypedStep DEF ResetInv, ResetTypeOK, Typed
  <2>3. StoreKept
    BY <2>1, StoreUnchanged
  <2>4. RowsStay /\ NamesStarted /\ HonestSteps /\ OneAdvances /\ BrokerSteps
    BY <2>1, StandsStill DEF ResetInv
  <2>5. Effects
    BY <2>1, <2>2, <2>3, <2>4, KeptIsServed DEF ResetInv, Effects, CachesFor, Unshared
  <2>6. KeysDeleted'
    BY <2>1 DEF ResetInv, KeysDeleted
  <2> QED
    BY <2>1, <2>2, <2>3, <2>5, <2>6, SaleStands, OrderKept, UndisturbedKept, AnewKept DEF ResetInv
<1>2. CASE EngineNext /\ UNCHANGED resetVars
  BY <1>2, EngineMoves, GuardedKeeps, EndsKeeps, PostKeeps, ShareKeeps
<1>3. CASE \E b, c \in Bookings : PostAgain(b, c)
  BY <1>3, AgainKeeps
<1>4. CASE ResetNext
  BY <1>4, ResetKeeps
<1> QED
  BY <1>1, <1>2, <1>3, <1>4 DEF DemoNext

\* Initially no reset was asked for.
LEMMA DemoStart == ResetInit => ResetInv
<1> SUFFICES ASSUME ResetInit PROVE ResetInv
  OBVIOUS
<1>1. Safe /\ Typed /\ TypeOK
  BY SafeInit DEF ResetInit, Safe, Typed
<1>2. ResetTypeOK /\ ResetKeepsSaleConsistent
  BY <1>1 DEF ResetInit, ResetTypeOK, ResetStates, ResetKeepsSaleConsistent, Safe
<1>3. Started /\ NoDangling /\ BodyIsFresh /\ KeysDeleted /\ Blank /\ CallsBack
  BY DEF ResetInit, Init, StoreInit, TransportInit, Started, NoDangling, BodyIsFresh,
         KeysDeleted, Blank, CallsBack
<1>4. Undisturbed /\ Anew
  BY DEF ResetInit, Init, StoreInit, TransportInit, Undisturbed, Lone, Anew, HonestFor, Serves,
         OutcomeIsReal
<1> QED
  BY <1>1, <1>2, <1>3, <1>4 DEF ResetInv

-----------------------------------------------------------------------------
(* Theorems. *)

\* Every variable keeps its type whatever the reset deletes.
THEOREM ResetTyping == ResetSpec => []ResetTypeOK
<1>1. ResetInv => ResetTypeOK
  BY DEF ResetInv
<1> QED
  BY DemoStart, DemoStep, <1>1, PTL DEF ResetSpec

\* Except between freeing the seats and deleting the bookings, and after a reset
\* that ended there, a CONFIRMED booking has its seat and its payment.
THEOREM ResetSafety == ResetSpec => []ResetKeepsSaleConsistent
<1>1. ResetInv => ResetKeepsSaleConsistent
  BY DEF ResetInv
<1> QED
  BY DemoStart, DemoStep, <1>1, PTL DEF ResetSpec

\* Zero duplicates: only a reset that has failed half-way can leave one behind.
THEOREM OnlyHalfAResetDuplicates == ResetSpec => [](reset # "half" => NoDuplicateAllocation)
<1>1. ResetKeepsSaleConsistent => (reset # "half" => NoDuplicateAllocation)
  BY DEF ResetKeepsSaleConsistent, ConfirmedHasSeat, NoDuplicateAllocation
<1> QED
  BY ResetSafety, <1>1, PTL

\* Once a reset is through, a key whose row it deleted replays nothing of a booking
\* that is gone, and one that came later the truth; not so a row older than an hour,
\* and a key that was posted again.
THEOREM ResetReplies == ResetSpec => []ResetKeysStayDeleted
<1>1. ResetInv => ResetKeysStayDeleted
  <2> SUFFICES ASSUME ResetInv, reset \in {"idle", "dlq", "done"}, NEW b \in Bookings,
                      Unshared(b), b \notin kept
               PROVE  OutcomeIsReal(b, Disturbed(b))
    BY DEF ResetKeysStayDeleted
  <2>1. CASE b \in forgotten
    BY <2>1 DEF ResetInv, KeysDeleted, OutcomeIsReal
  <2>2. CASE b \notin forgotten
    BY <2>2 DEF ResetInv, Anew
  <2> QED
    BY <2>1, <2>2
<1> QED
  BY DemoStart, DemoStep, <1>1, PTL DEF ResetSpec

\* The statements of an invocation whose booking was deleted change no seat and no
\* booking.
LEMMA StaleStep ==
  ASSUME ResetInv, NEW w \in Workers, ~Refused(w), WorkerStep(w), Deleted(w)
  PROVE  UNCHANGED <<seatVars, bookingVars>>
<1>1. pc[w] # "idle" => job[w] \in Bookings
  BY DEF ResetInv, Typed, BusyHasJob
<1>2. pc[w] # "idle" => HeldBy(job[w]) = {}
  BY <1>1, IdsAssumption DEF Deleted, ResetInv, NoDangling, HeldBy
<1>3. Vacate({}) => UNCHANGED seatVars
  BY DEF Vacate, seatVars, ResetInv, Typed, TypeOK, StoreTypeOK
<1>4. pc[w] # "idle" /\ FailIfPending(job[w]) => UNCHANGED bookingVars
  BY <1>1 DEF FailIfPending, Deleted, bookingVars, ResetInv, Typed, TypeOK, StoreTypeOK
<1>5. CASE AllocateSeat(w)
  BY <1>5 DEF AllocateSeat, Step, Refused, ResetInv, Typed, TypeOK, WorkerTypeOK
<1>6. CASE Confirm(w) \/ ConfirmSeatOnly(w)
  BY <1>2, <1>6 DEF Confirm, ConfirmSeatOnly, CanSeal, Step
<1>7. CASE ReleaseForRetry(w)
  BY <1>2, <1>3, <1>7 DEF ReleaseForRetry, release_hold_retryable, bookingVars
<1>8. CASE FailBooking(w)
  <2>1. rows[w] \cap HeldBy(job[w]) = {} /\ pc[w] # "idle"
    BY <1>2, <1>8 DEF FailBooking, Step
  <2> QED
    BY <1>3, <1>4, <1>8, <2>1 DEF FailBooking
<1>9. CASE InsertPayment(w)
  BY <1>9 DEF InsertPayment
<1>10. CASE SeesPending(w) \/ AlreadyTerminal(w) \/ ReuseHold(w) \/ NoHoldYet(w)
        \/ SoldOut(w) \/ LookupPayment(w) \/ PaymentUnavailable(w) \/ ConfirmReads(w)
        \/ ConfirmNothing(w) \/ Refund(w) \/ InsertDlqJob(w) \/ Unseat(w) \/ CacheAndRespond(w)
  <2>1. UNCHANGED storeVars
    BY <1>10
    DEF SeesPending, AlreadyTerminal, ReuseHold, NoHoldYet, SoldOut, GoTerminal,
        LookupPayment, PaymentUnavailable, ConfirmReads, ConfirmNothing, Refund,
        InsertDlqJob, Unseat, CacheAndRespond
  <2> QED
    BY <2>1 DEF storeVars, seatVars, bookingVars
<1> QED
  BY <1>5, <1>6, <1>7, <1>8, <1>9, <1>10 DEF WorkerStep

\* A job whose booking was deleted takes nothing, wherever in its run it is.
THEOREM StaleJobsAreHarmless == ResetSpec => StaleJobTakesNothing
<1>1. ResetInv /\ [DemoNext]_demoVars =>
        [\A w \in Workers :
           /\ pc[w] # "idle" /\ Deleted(w)
           /\ pc'[w] # pc[w]
           => UNCHANGED <<seatVars, bookingVars>>]_demoVars
  <2> SUFFICES ASSUME ResetInv, DemoNext, NEW w \in Workers,
                      pc[w] # "idle", Deleted(w), pc'[w] # pc[w]
               PROVE  UNCHANGED <<seatVars, bookingVars>>
    OBVIOUS
  <2>1. ASSUME UNCHANGED storeVars PROVE UNCHANGED <<seatVars, bookingVars>>
    BY <2>1 DEF storeVars, seatVars, bookingVars
  <2>2. CASE Guarded
    BY <2>1, <2>2, WhoMoves, StaleStep DEF ResetInv
  <2>3. ASSUME NEW v \in Workers, Ends(v) PROVE UNCHANGED storeVars
    BY <2>3 DEF Ends
  <2>4. ASSUME NEW b \in Bookings, Posts(b) PROVE UNCHANGED storeVars
    BY <2>4 DEF Posts
  <2>5. ASSUME NEW a \in Bookings, NEW b \in Bookings, SharePayment(a, b) \/ PostAgain(a, b)
        PROVE  FALSE
    BY <2>5 DEF SharePayment, PostAgain, vars, workerVars
  <2>6. ~ResetNext
    BY ResetLeaves DEF workerVars
  <2> QED
    BY <2>1, <2>2, <2>3, <2>4, <2>5, <2>6, EngineMoves DEF DemoNext
<1> QED
  BY <1>1, DemoStart, DemoStep, PTL DEF ResetSpec, StaleJobTakesNothing

=============================================================================
