---------------------------- MODULE DlqRetryProofs ----------------------------
(***************************************************************************)
(* The retry route publishes as often as it is called, without looking at  *)
(* the booking.  What Reservation promises survives it: the guards are in  *)
(* the statements of the worker, and a message is only a reason to run it. *)
(***************************************************************************)
EXTENDS DlqRetry, ReservationProofs

\* Only bookings that have a row, and a dead-letter row, are published again.
AgainIsKnown == \A b \in again : b \in Bookings /\ bookingStatus[b] # "ABSENT" /\ b \in dlq

DlqInv == Truthful /\ AgainIsKnown

\* An idle invocation starts on a booking that has a row.
Starts(w, b) ==
  /\ pc[w] = "idle"
  /\ \E to \in {"booking", "dlq"} : pc' = [pc EXCEPT ![w] = to]
  /\ job' = [job EXCEPT ![w] = b]
  /\ body' = body \/ body' = [body EXCEPT ![w] = "exhausted"]
  /\ retried' \in [Workers -> 0 .. MaxRetries]
  /\ UNCHANGED <<storeVars, transportVars, ingressVars, auditVars, rows, began>>

\* Starting once more breaks nothing.
LEMMA StartsKeep ==
  ASSUME Truthful, NEW w \in Workers, NEW b \in Bookings, bookingStatus[b] # "ABSENT",
         b \in dlq, Starts(w, b)
  PROVE  Truthful'
<1> USE DEF Starts, storeVars, seatVars, bookingVars, transportVars, ingressVars, auditVars
<1>0. Typed /\ TypeOK /\ WorkerTypeOK
  BY DEF Truthful, Safe, Typed, TypeOK
<1>1. Typed'
  <2>1. StoreTypeOK' /\ TransportTypeOK' /\ IngressTypeOK'
    BY <1>0 DEF TypeOK, StoreTypeOK, TransportTypeOK, IngressTypeOK
  <2>2. WorkerTypeOK'
    BY <1>0 DEF WorkerTypeOK, Steps, Bodies
  <2>3. BusyHasJob'
    BY <1>0 DEF Typed, WorkerTypeOK, BusyHasJob
  <2> QED
    BY <2>1, <2>2, <2>3 DEF Typed, TypeOK
<1>2. Safe'
  <2>1. PaidWorkers'
    BY <1>0 DEF Truthful, Safe, PaidWorkers, WorkerTypeOK
  <2>2. ConfirmedHasSeat' /\ PaidBeforeConfirmed'
    BY DEF Truthful, Safe, ConfirmedHasSeat, PaidBeforeConfirmed
  <2> QED
    BY <1>1, <2>1, <2>2 DEF Safe
<1>3. Known'
  BY <1>0 DEF Truthful, Known, WorkerTypeOK
<1>4. Honest'
  BY <1>0 DEF Truthful, Honest, Failing, WorkerTypeOK
<1>5. CachedOutcomeIsReal'
  BY DEF Truthful, CachedOutcomeIsReal, OutcomeIsReal, Reinvoked
<1>6. Alone'
  <2> SUFFICES ASSUME NEW c \in Bookings, ~Reinvoked(c)' PROVE Lone(c)'
    BY DEF Alone
  <2>1. c # b /\ Lone(c)
    BY DEF Truthful, Alone, Reinvoked
  <2>2. \A v \in Workers : Serves(v, c)' =>
          Serves(v, c) /\ UNCHANGED <<pc[v], job[v], body[v]>>
    BY <1>0, <2>1 DEF Serves, WorkerTypeOK
  <2> QED
    BY <2>1, <2>2 DEF Lone, Serves, Sold, Failing, InCallback
<1> QED
  BY <1>2, <1>3, <1>4, <1>5, <1>6 DEF Truthful

\* DlqInv is inductive.
LEMMA DlqStep == DlqInv /\ [DlqNext]_dlqVars => DlqInv'
<1> SUFFICES ASSUME DlqInv, [DlqNext]_dlqVars PROVE DlqInv'
  OBVIOUS
<1>1. ASSUME [Next]_vars, UNCHANGED again PROVE DlqInv'
  <2>1. Truthful' /\ RowsStay
    BY <1>1, TruthfulStep, NextRowsStay DEF DlqInv, Truthful, Safe
  <2>2. dlq \subseteq dlq'
    BY <1>1, NextBroker DEF DlqInv, Truthful, Safe, Remembers
  <2> QED
    BY <1>1, <2>1, <2>2 DEF DlqInv, AgainIsKnown, RowsStay
<1>2. ASSUME NEW b \in Bookings, RetryDlqJob(b) PROVE DlqInv'
  <2>1. Truthful' /\ again' = again \cup {b} /\ UNCHANGED <<bookingStatus, dlq>>
    <3>1. UNCHANGED vars
      BY <1>2 DEF RetryDlqJob
    <3> QED
      BY <1>2, <3>1, TruthfulStep DEF RetryDlqJob, DlqInv, vars, storeVars, bookingVars, auditVars
  <2>2. bookingStatus[b] # "ABSENT" /\ b \in dlq
    BY <1>2 DEF RetryDlqJob, DlqInv, Truthful, Known
  <2> QED
    BY <2>1, <2>2 DEF DlqInv, AgainIsKnown
<1>3. ASSUME NEW w \in Workers, NEW b \in Bookings, DeliverAgain(w, b) \/ ReportAgain(w, b)
      PROVE  DlqInv'
  <2>1. b \in again /\ bookingStatus[b] # "ABSENT" /\ b \in dlq
    BY <1>3 DEF DeliverAgain, ReportAgain, DlqInv, AgainIsKnown
  <2>2. Starts(w, b)
    <3>1. retried \in [Workers -> 0 .. MaxRetries]
      BY DEF DlqInv, Truthful, Safe, Typed, TypeOK, WorkerTypeOK
    <3> QED
      BY <1>3, <3>1 DEF DeliverAgain, ReportAgain, Starts
  <2>3. Truthful'
    BY <2>1, <2>2, StartsKeep DEF DlqInv
  <2>4. UNCHANGED <<again, bookingStatus, dlq>>
    BY <1>3 DEF DeliverAgain, ReportAgain, storeVars, bookingVars, auditVars
  <2> QED
    BY <2>3, <2>4 DEF DlqInv, AgainIsKnown
<1> QED
  BY <1>1, <1>2, <1>3 DEF DlqNext, dlqVars

\* Initially nothing is published again.
LEMMA DlqStart == DlqInit => DlqInv
<1> QED
  BY TruthfulInit DEF DlqInit, DlqInv, AgainIsKnown

\* What a step of the engine with the retry route does to the store, a step of
\* the engine alone does, or nothing.
LEMMA DlqMoves ==
  ASSUME DlqInv, [DlqNext]_dlqVars
  PROVE  [Next]_vars \/ UNCHANGED storeVars
<1> QED
  BY DEF DlqNext, dlqVars, RetryDlqJob, DeliverAgain, ReportAgain, vars

-----------------------------------------------------------------------------
(* However often the operator presses Retry. *)

\* Every variable keeps its type.
THEOREM RetryTyping == DlqSpec => []TypeOK
<1>1. DlqInv => TypeOK
  BY DEF DlqInv, Truthful, Safe, Typed
<1> QED
  BY DlqStart, DlqStep, <1>1, PTL DEF DlqSpec

\* A CONFIRMED booking rests on a successful charge,
THEOREM RetryPaysFirst == DlqSpec => []PaidBeforeConfirmed
<1>1. DlqInv => PaidBeforeConfirmed
  BY DEF DlqInv, Truthful, Safe
<1> QED
  BY DlqStart, DlqStep, <1>1, PTL DEF DlqSpec

\* what is cached stays true of its booking (a retried booking has been given to
\* a second invocation: FAILED may stand over its sold seat),
THEOREM RetryRepliesAreReal == DlqSpec => []CachedOutcomeIsReal
<1>1. DlqInv => CachedOutcomeIsReal
  BY DEF DlqInv, Truthful
<1> QED
  BY DlqStart, DlqStep, <1>1, PTL DEF DlqSpec

\* no decided booking is decided again,
THEOREM RetryDecidesOnce == DlqSpec => TerminalIsFinal
<1>1. DlqInv /\ [DlqNext]_dlqVars =>
        [\A b \in Bookings : bookingStatus[b] \in Terminal =>
           UNCHANGED <<bookingStatus[b], bookingSeat[b]>>]_vars
  <2> SUFFICES ASSUME DlqInv, [DlqNext]_dlqVars
               PROVE  \A b \in Bookings : bookingStatus[b] \in Terminal =>
                        UNCHANGED <<bookingStatus[b], bookingSeat[b]>>
    OBVIOUS
  <2>1. CASE [Next]_vars
    BY <2>1, NextKeeps DEF DlqInv, Truthful, Safe, StoreKept
  <2>2. CASE UNCHANGED storeVars
    BY <2>2 DEF storeVars, bookingVars
  <2> QED
    BY <2>1, <2>2, DlqMoves
<1> QED
  BY <1>1, DlqStart, DlqStep, PTL DEF DlqSpec, TerminalIsFinal

\* no sold seat is given away,
THEOREM RetryKeepsSales == DlqSpec => SoldSeatIsFinal
<1>1. DlqInv /\ [DlqNext]_dlqVars =>
        [\A s \in Seats : seatStatus[s] = "CONFIRMED" =>
           UNCHANGED <<seatStatus[s], seatBooking[s]>>]_vars
  <2> SUFFICES ASSUME DlqInv, [DlqNext]_dlqVars
               PROVE  \A s \in Seats : seatStatus[s] = "CONFIRMED" =>
                        UNCHANGED <<seatStatus[s], seatBooking[s]>>
    OBVIOUS
  <2>1. CASE [Next]_vars
    BY <2>1, NextKeeps DEF DlqInv, Truthful, Safe, StoreKept
  <2>2. CASE UNCHANGED storeVars
    BY <2>2 DEF storeVars, seatVars
  <2> QED
    BY <2>1, <2>2, DlqMoves
<1> QED
  BY <1>1, DlqStart, DlqStep, PTL DEF DlqSpec, SoldSeatIsFinal

\* no live hold is taken from its booking,
THEOREM RetryKeepsHolds == DlqSpec => LiveHoldIsKept
<1>1. DlqInv /\ [DlqNext]_dlqVars =>
        [\A b \in Bookings : \A s \in LiveHolds(b) :
           \/ seatBooking'[s] = b
           \/ /\ seatStatus'[s] = "AVAILABLE"
              /\ \E w \in Workers : job[w] = b /\ pc[w] \in {"release", "fail"} /\ pc'[w] # pc[w]
         ]_vars
  <2> SUFFICES ASSUME DlqInv, [DlqNext]_dlqVars PROVE HoldsKept
    BY DEF HoldsKept
  <2>1. CASE [Next]_vars
    BY <2>1, NextKeepsHolds DEF DlqInv, Truthful, Safe
  <2>2. CASE UNCHANGED storeVars
    BY <2>2 DEF storeVars, HoldsKept, LiveHolds, HeldBy
  <2> QED
    BY <2>1, <2>2, DlqMoves
<1> QED
  BY <1>1, DlqStart, DlqStep, PTL DEF DlqSpec, LiveHoldIsKept

\* no job is dropped, for want of a decision, a refund or a row that says so,
THEOREM RetryLosesNothing == DlqSpec => []NoJobIsLost
<1>1. DlqInit => NoJobIsLost /\ BodyIsBacked
  BY DEF DlqInit, Init, TransportInit, NoJobIsLost, BodyIsBacked
<1>2. DlqInv /\ NoJobIsLost /\ BodyIsBacked /\ [DlqNext]_dlqVars => NoJobIsLost' /\ BodyIsBacked'
  <2> SUFFICES ASSUME DlqInv, NoJobIsLost, BodyIsBacked, [DlqNext]_dlqVars
               PROVE  NoJobIsLost' /\ BodyIsBacked'
    OBVIOUS
  <2>1. CASE [Next]_vars
    BY <2>1, NothingIsLost DEF DlqInv
  <2>2. ASSUME NEW b \in Bookings, RetryDlqJob(b) PROVE NoJobIsLost' /\ BodyIsBacked'
    BY <2>2, NothingIsLost DEF RetryDlqJob, DlqInv
  <2>3. ASSUME NEW w \in Workers, NEW b \in Bookings, DeliverAgain(w, b) \/ ReportAgain(w, b)
        PROVE  NoJobIsLost' /\ BodyIsBacked'
    <3>1. UNCHANGED <<bookingStatus, phase, dlq, refunded>>
      BY <2>3 DEF DeliverAgain, ReportAgain, storeVars, transportVars, auditVars
    <3>2. BodyIsBacked'
      BY <2>3, <3>1
      DEF DeliverAgain, ReportAgain, BodyIsBacked, DlqInv, Truthful, Safe, Typed, TypeOK, WorkerTypeOK
    <3> QED
      BY <3>1, <3>2 DEF NoJobIsLost
  <2> QED
    BY <2>1, <2>2, <2>3 DEF DlqNext, dlqVars
<1> QED
  BY <1>1, <1>2, DlqStart, DlqStep, PTL DEF DlqSpec

\* and the engine with the route implements the sale all the same.
THEOREM RetryRefinement == DlqSpec => SaleRefined
<1>1. DlqInit => Sale!SaleInit
  BY DEF DlqInit, Init, StoreInit, Sale!SaleInit, Outcome, Terminal
<1>2. ASSUME DlqInv, [DlqNext]_dlqVars PROVE [Sale!SaleNext]_(Sale!saleVars)
  <2>1. CASE [Next]_vars
    BY <1>2, <2>1, SaleStep DEF DlqInv, Truthful
  <2>2. CASE UNCHANGED storeVars
    BY <2>2 DEF storeVars, bookingVars, Sale!saleVars, Outcome
  <2> QED
    BY <1>2, <2>1, <2>2, DlqMoves
<1> QED
  BY <1>1, <1>2, DlqStart, DlqStep, PTL DEF DlqSpec, SaleRefined, Sale!SaleSpec
=============================================================================
