------------------------------- MODULE DlqRetry -------------------------------
(***************************************************************************)
(* POST /api/admin/dlq/:id/retry: the payload of a dead-letter job is      *)
(* published again, as a message of its own, without looking at what has   *)
(* become of the booking.  retried_at is written and never read, and no    *)
(* deduplication id is sent: the route may be called any number of times.  *)
(*                                                                         *)
(* What the broker does with the new messages is not counted: a booking in *)
(* again may be delivered, and reported as failed, any number of times and *)
(* to several invocations at once.                                         *)
(***************************************************************************)
EXTENDS Reservation

VARIABLE
  again       \* bookings with messages published by the retry route

dlqVars == <<vars, again>>

DlqInit == Init /\ again = {}

\* The row exists and its payload parses.  Bound: the operator acts once the
\* callback that inserted the row has been answered.  When publishing throws the
\* answer is 502; the message may have been taken all the same.
RetryDlqJob(b) ==
  /\ b \in dlq
  /\ phase[b] = "reported"
  /\ again' = again \cup {b}
  /\ UNCHANGED vars

\* Upstash-Retried counts from 0 again.
DeliverAgain(w, b) ==
  /\ b \in again
  /\ pc[w] = "idle"
  /\ pc' = [pc EXCEPT ![w] = "booking"]
  /\ job' = [job EXCEPT ![w] = b]
  /\ \E n \in 0 .. MaxRetries : retried' = [retried EXCEPT ![w] = n]
  /\ UNCHANGED <<storeVars, transportVars, ingressVars, auditVars, rows, began, body, again>>

\* The new message has an id of its own, and so gets a row of its own.
ReportAgain(w, b) ==
  /\ b \in again
  /\ pc[w] = "idle"
  /\ pc' = [pc EXCEPT ![w] = "dlq"]
  /\ job' = [job EXCEPT ![w] = b]
  /\ body' = [body EXCEPT ![w] = "exhausted"]
  /\ UNCHANGED <<storeVars, transportVars, ingressVars, auditVars, retried, rows, began, again>>

DlqNext ==
  \/ Next /\ UNCHANGED again
  \/ \E b \in Bookings : RetryDlqJob(b)
  \/ \E w \in Workers, b \in Bookings : DeliverAgain(w, b) \/ ReportAgain(w, b)

DlqSpec == DlqInit /\ [][DlqNext]_dlqVars

-----------------------------------------------------------------------------
\* "sets deduplicationId so a double-click doesn't double-enqueue": one
\* invocation at a time serves a job that was retried.  It does not hold.
RetryRunsOnce ==
  \A b \in again : \A v, w \in Workers : job[v] = b /\ job[w] = b => v = w
=============================================================================
