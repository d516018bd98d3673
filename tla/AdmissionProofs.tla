--------------------------- MODULE AdmissionProofs ---------------------------
(***************************************************************************)
(* Theorems about Admission: the requests only ever drive the engine the   *)
(* way Reservation allows, so what is proved of Reservation holds with any *)
(* number of racing requests in front of it.                               *)
(***************************************************************************)
EXTENDS Admission, ReservationProofs

\* A statement of a request is a step of the engine or leaves it unchanged.
LEMMA RequestDrivesEngine ==
  ASSUME NEW r \in Requests, RequestStep(r), req[r] # "unsent" => key[r] \in Bookings
  PROVE  [Next]_vars
<1>1. CASE Proceed(r)
  BY <1>1 DEF Proceed, Next, IngressNext
<1>2. CASE Accept(r)
  BY <1>2 DEF Accept, Reply, At, Next, IngressNext
<1>3. CASE Reject(r)
  BY <1>3 DEF Reject, Reply, At, Next, IngressNext
<1>4. CASE Fail(r)
  BY <1>4 DEF Fail, engineVars, Next, IngressNext
<1>5. CASE Refuse(r) \/ PassGates(r) \/ PassFence(r) \/ TakeSnapshot(r) \/ ClaimKey(r)
        \/ ExistingKey(r) \/ NoRow(r)
  BY <1>5 DEF Refuse, PassGates, PassFence, TakeSnapshot, ClaimKey, ExistingKey, NoRow, engineVars
<1> QED
  BY <1>1, <1>2, <1>3, <1>4, <1>5 DEF RequestStep

\* Types of the requests; a request that was sent has a key and a body.
RequestTyped ==
  /\ keyHash \in [Bookings -> Hashes \cup {NoHash}]
  /\ fenced \subseteq Bookings
  /\ req \in [Requests -> ReqStates]
  /\ key \in [Requests -> Bookings \cup {NoBooking}]
  /\ hash \in [Requests -> Hashes \cup {NoHash}]
  /\ seen \in [Requests -> CacheStates \cup {"absent"}]
  /\ reply \in [Requests -> Replies]
  /\ \A r \in Requests : req[r] # "unsent" => key[r] \in Bookings /\ hash[r] \in Hashes

\* RequestTyped is inductive, given the type of the cached responses.
LEMMA RequestTypedStep ==
  ASSUME RequestTyped, cached \in [Bookings -> CacheStates], [AdmissionNext]_allVars
  PROVE  RequestTyped'
<1> USE DEF RequestTyped
<1>1. ASSUME NEW r \in Requests, NEW b \in Bookings, NEW h \in Hashes, Send(r, b, h)
      PROVE  RequestTyped'
  BY <1>1 DEF Send, ReqStates
<1>2. ASSUME NEW r \in Requests, RequestStep(r) PROVE RequestTyped'
  <2>1. ASSUME NEW from \in ReqStates \ {"unsent"}, NEW what \in Replies,
               keyHash' = keyHash, fenced' = fenced, Reply(r, from, what)
        PROVE  RequestTyped'
    BY <2>1 DEF Reply, At, ReqStates
  <2>2. CASE Refuse(r)
    BY <2>1, <2>2 DEF Refuse, ReqStates, Replies
  <2>3. CASE PassGates(r) \/ PassFence(r)
    BY <2>3 DEF PassGates, PassFence, At, ReqStates
  <2>4. CASE TakeSnapshot(r)
    BY <2>4 DEF TakeSnapshot, At, ReqStates
  <2>5. CASE ClaimKey(r)
    BY <2>5 DEF ClaimKey, At, ReqStates
  <2>6. CASE ExistingKey(r)
    <3>1. PICK what \in Replies : Reply(r, "claim", what)
      BY <2>6 DEF ExistingKey, Replies, CacheStates, Terminal
    <3> QED
      BY <2>1, <2>6, <3>1 DEF ExistingKey, ReqStates
  <2>7. CASE NoRow(r)
    BY <2>1, <2>7 DEF NoRow, ReqStates, Replies
  <2>8. CASE Proceed(r)
    BY <2>8 DEF Proceed, admissionVars, requestVars
  <2>9. CASE Accept(r) \/ Reject(r)
    BY <2>1, <2>9 DEF Accept, Reject, ReqStates, Replies, CacheStates
  <2>10. CASE Fail(r)
    BY <2>1, <2>10 DEF Fail, ReqStates, Replies
  <2> QED
    BY <1>2, <2>2, <2>3, <2>4, <2>5, <2>6, <2>7, <2>8, <2>9, <2>10 DEF RequestStep
<1>3. ASSUME NEW b \in Bookings, FenceExpires(b) PROVE RequestTyped'
  BY <1>3 DEF FenceExpires, requestVars
<1>4. CASE UNCHANGED admissionVars
  BY <1>4 DEF admissionVars, requestVars
<1> QED
  BY <1>1, <1>2, <1>3, <1>4 DEF AdmissionNext, allVars

\* Every step in front of the engine is one of its steps or leaves it alone.
LEMMA AdmissionDrivesEngine ==
  ASSUME RequestTyped, [AdmissionNext]_allVars
  PROVE  [Next]_vars
<1>1. ASSUME NEW r \in Requests, RequestStep(r) PROVE [Next]_vars
  BY <1>1, RequestDrivesEngine DEF RequestTyped
<1>2. ASSUME NEW r \in Requests, NEW b \in Bookings, NEW h \in Hashes, Send(r, b, h)
      PROVE  UNCHANGED vars
  BY <1>2 DEF Send, engineVars
<1>3. ASSUME NEW b \in Bookings, FenceExpires(b) PROVE UNCHANGED vars
  BY <1>3 DEF FenceExpires, engineVars
<1>4. EngineNext => Next
  BY DEF EngineNext, Next
<1>5. UNCHANGED allVars => UNCHANGED vars
  BY DEF allVars, engineVars
<1> QED
  BY <1>1, <1>2, <1>3, <1>4, <1>5 DEF AdmissionNext

\* The initial states of Admission are initial states of the engine.
LEMMA AdmissionInits == AdmissionInit => Init /\ RequestTyped
BY DEF AdmissionInit, RequestTyped, ReqStates, Replies, CacheStates

\* RequestTyped and the engine's types are inductive together.
LEMMA AllTypedStep ==
  ASSUME Typed, RequestTyped, [AdmissionNext]_allVars
  PROVE  Typed' /\ RequestTyped'
<1>1. cached \in [Bookings -> CacheStates]
  BY DEF Typed, TypeOK, IngressTypeOK
<1> QED
  BY <1>1, RequestTypedStep, AdmissionDrivesEngine, TypedStep

\* They hold initially.
LEMMA AllTypedInit == AdmissionInit => Typed /\ RequestTyped
BY AdmissionInits, InitTyped

\* With any number of requests in front of it, the engine behaves as specified.
THEOREM EngineRefined == AdmissionSpec => Spec
<1> QED
  BY AllTypedInit, AllTypedStep, AdmissionDrivesEngine, AdmissionInits, PTL
  DEF AdmissionSpec, Spec

\* So every variable of the two has its type,
THEOREM AdmissionTyping == AdmissionSpec => []AdmissionTypeOK
<1>1. Typed /\ RequestTyped => AdmissionTypeOK
  BY DEF Typed, RequestTyped, AdmissionTypeOK
<1> QED
  BY <1>1, AllTypedInit, AllTypedStep, PTL DEF AdmissionSpec

\* and no seat is in two CONFIRMED bookings, however clients retry.
THEOREM NoDuplicateAdmission == AdmissionSpec => []Sale!NoDuplicateSale
<1> QED
  BY EngineRefined, NoSeatIsSoldTwice

\* Nor is there any other of the engine's promises that a client breaks by retrying:
\* decided bookings, sold seats and live holds are kept, replays are real, and no job
\* is dropped.
THEOREM BehindTheIngress ==
  AdmissionSpec => /\ [](ConfirmedHasSeat /\ PaidBeforeConfirmed)
                   /\ [](CachedOutcomeIsReal /\ NoJobIsLost)
                   /\ TerminalIsFinal /\ SoldSeatIsFinal /\ LiveHoldIsKept
<1> QED
  BY EngineRefined, Safety, RepliesAreReal, JobsAreSettled, DecisionsAreFinal,
     SalesAreFinal, HoldsAreRespected, PTL

-----------------------------------------------------------------------------
(* One key, one booking, one answer. *)

\* The fresh request of a key is the one whose body the key holds.
FreshHoldsKey == \A r \in Requests : req[r] = "fresh" => keyHash[key[r]] = hash[r]

\* A request that has not been sent has not been answered.
Unanswered == \A r \in Requests : req[r] = "unsent" => reply[r] = "none"

KeyInv ==
  Typed /\ RequestTyped /\ Unanswered /\ FreshHoldsKey /\ OneFreshRequest /\ RepliesMatchBody

\* A step that answers a request keeps KeyInv if the answer is not a cached body
\* or goes to the body the key holds.
LEMMA ReplyKeepsKey ==
  ASSUME KeyInv, Typed', RequestTyped', NEW r \in Requests,
         NEW from \in ReqStates \ {"unsent"}, NEW what,
         keyHash' = keyHash, Reply(r, from, what),
         what \in CacheStates \ {"none"} => keyHash[key[r]] = hash[r]
  PROVE  KeyInv'
BY DEF KeyInv, RequestTyped, Unanswered, FreshHoldsKey, OneFreshRequest, RepliesMatchBody,
       Reply, At

\* One statement of a request keeps KeyInv: a key that has a row is never
\* claimed again, and the first answer goes to the request that claimed it.
LEMMA RequestKeepsKey ==
  ASSUME KeyInv, Typed', RequestTyped', NEW r \in Requests, RequestStep(r)
  PROVE  KeyInv'
<1> USE DEF KeyInv
<1>1. CASE Refuse(r) \/ NoRow(r)
  BY <1>1, ReplyKeepsKey DEF Refuse, NoRow, ReqStates, CacheStates, Terminal
<1>2. CASE PassGates(r) \/ PassFence(r) \/ TakeSnapshot(r)
  BY <1>2
  DEF PassGates, PassFence, TakeSnapshot, At, RequestTyped, Unanswered, FreshHoldsKey,
      OneFreshRequest, RepliesMatchBody
<1>3. CASE ClaimKey(r)
  <2>1. \A q \in Requests : req[q] = "fresh" => key[q] # key[r]
    BY <1>3, HashAssumption DEF ClaimKey, FreshHoldsKey, RequestTyped
  <2>2. \A q \in Requests : reply[q] \in CacheStates \ {"none"} => key[q] # key[r]
    BY <1>3, HashAssumption DEF ClaimKey, At, RepliesMatchBody, RequestTyped, Unanswered
  <2> QED
    BY <1>3, <2>1, <2>2
    DEF ClaimKey, At, RequestTyped, Unanswered, FreshHoldsKey, OneFreshRequest, RepliesMatchBody
<1>4. CASE ExistingKey(r)
  <2> DEFINE what == CASE keyHash[key[r]] # hash[r] -> "mismatch"
                       [] keyHash[key[r]] = hash[r] /\ seen[r] = "none" -> "inflight"
                       [] OTHER -> seen[r]
  <2>1. Reply(r, "claim", what) /\ keyHash' = keyHash
    BY <1>4 DEF ExistingKey
  <2>2. what \in CacheStates \ {"none"} => keyHash[key[r]] = hash[r]
    BY DEF CacheStates, Terminal
  <2> HIDE DEF what
  <2> QED
    BY <2>1, <2>2, ReplyKeepsKey DEF ReqStates
<1>5. CASE Proceed(r)
  BY <1>5
  DEF Proceed, admissionVars, requestVars, RequestTyped, Unanswered, FreshHoldsKey,
      OneFreshRequest, RepliesMatchBody
<1>6. CASE Accept(r) \/ Reject(r)
  <2>1. keyHash[key[r]] = hash[r]
    BY <1>6 DEF Accept, Reject, Reply, At, FreshHoldsKey
  <2> QED
    BY <1>6, <2>1, ReplyKeepsKey DEF Accept, Reject, ReqStates
<1>7. CASE Fail(r)
  BY <1>7, ReplyKeepsKey DEF Fail, ReqStates, CacheStates, Terminal
<1> QED
  BY <1>1, <1>2, <1>3, <1>4, <1>5, <1>6, <1>7 DEF RequestStep

\* KeyInv is inductive.
LEMMA KeyInvStep ==
  ASSUME KeyInv, [AdmissionNext]_allVars
  PROVE  KeyInv'
<1>1. Typed' /\ RequestTyped'
  BY AllTypedStep DEF KeyInv
<1>2. ASSUME NEW r \in Requests, NEW b \in Bookings, NEW h \in Hashes, Send(r, b, h)
      PROVE  KeyInv'
  <2>1. reply[r] \notin CacheStates \ {"none"}
    BY <1>2 DEF Send, Unanswered, KeyInv
  <2> QED
    BY <1>1, <1>2, <2>1
    DEF KeyInv, Send, RequestTyped, Unanswered, FreshHoldsKey, OneFreshRequest, RepliesMatchBody
<1>3. ASSUME NEW r \in Requests, RequestStep(r) PROVE KeyInv'
  BY <1>1, <1>3, RequestKeepsKey
<1>4. ASSUME keyHash' = keyHash, UNCHANGED requestVars PROVE KeyInv'
  BY <1>1, <1>4
  DEF KeyInv, requestVars, Unanswered, FreshHoldsKey, OneFreshRequest, RepliesMatchBody
<1>5. ASSUME NEW b \in Bookings, FenceExpires(b) PROVE KeyInv'
  BY <1>4, <1>5 DEF FenceExpires
<1>6. CASE UNCHANGED admissionVars
  BY <1>4, <1>6 DEF admissionVars
<1> QED
  BY <1>2, <1>3, <1>5, <1>6 DEF AdmissionNext, allVars

\* At most one request per key is ever fresh, and no request is answered with
\* what another body was answered.
THEOREM OneKeyOneAnswer == AdmissionSpec => [](OneFreshRequest /\ RepliesMatchBody)
<1>1. AdmissionInit => KeyInv
  BY AllTypedInit
  DEF AdmissionInit, KeyInv, Unanswered, FreshHoldsKey, OneFreshRequest, RepliesMatchBody,
      CacheStates
<1>2. KeyInv => OneFreshRequest /\ RepliesMatchBody
  BY DEF KeyInv
<1> QED
  BY <1>1, <1>2, KeyInvStep, PTL DEF AdmissionSpec

\* In particular a replay never crosses from one body to another.
COROLLARY ReplaysKeepToTheirBody == AdmissionSpec => []RepliesMatchBody
<1> QED
  BY OneKeyOneAnswer, PTL

-----------------------------------------------------------------------------
(* Who is told ACCEPTED has a published job. *)

\* The effects of a step of the engine on messages, posts and cached 202s: nothing
\* is unpublished, and a 202 is cached by a post that has published.
Publishes ==
  /\ \A b \in Bookings : phase[b] # "unpublished" => phase'[b] # "unpublished"
  /\ \A b \in Bookings : ingress'[b] = "published" =>
       ingress[b] = "published" \/ phase'[b] # "unpublished"
  /\ \A b \in Bookings : cached'[b] = "ACCEPTED" =>
       cached[b] = "ACCEPTED" \/ ingress[b] = "published"

\* An answer does not unpublish a message.
LEMMA AnswersStay ==
  ASSUME Typed, NEW w \in Workers, pc[w] # "idle", NEW code \in {200, 489, 500},
         Respond(w, code)
  PROVE  \A b \in Bookings : phase[b] # "unpublished" => phase'[b] # "unpublished"
<1> USE DEF Typed, TypeOK, TransportTypeOK, WorkerTypeOK
<1>1. job[w] \in Bookings
  BY DEF BusyHasJob
<1>2. CASE InCallback(w)
  BY <1>1, <1>2 DEF Respond, AnswerCallback, Move, transportVars
<1>3. CASE ~InCallback(w)
  <2>1. Answer(job[w], retried[w], code)
    BY <1>3 DEF Respond
  <2>2. CASE ~(phase[job[w]] = "sent" /\ attempt[job[w]] = retried[w])
    <3>1. UNCHANGED transportVars
      BY <2>1, <2>2 DEF Answer
    <3> QED
      BY <3>1 DEF transportVars
  <2>3. CASE phase[job[w]] = "sent" /\ attempt[job[w]] = retried[w]
    <3>1. CASE code = 200
      BY <1>1, <2>1, <2>3, <3>1 DEF Answer, Move
    <3>2. CASE code = 489
      BY <1>1, <2>1, <2>3, <3>2 DEF Answer, Move
    <3>3. CASE code = 500
      BY <1>1, <2>1, <2>3, <3>3 DEF Answer, RetryOrGiveUp
    <3> QED
      BY <3>1, <3>2, <3>3
  <2> QED
    BY <2>2, <2>3
<1> QED
  BY <1>2, <1>3

\* One statement of a worker.
LEMMA WorkerPublishes ==
  ASSUME Typed, NEW w \in Workers, WorkerStep(w)
  PROVE  Publishes
<1> USE DEF Typed, TypeOK, TransportTypeOK, IngressTypeOK, WorkerTypeOK, Publishes
<1>1. CASE AlreadyTerminal(w) \/ ReleaseForRetry(w)
  <2>1. pc[w] # "idle" /\ (\E code \in {200, 489, 500} : Respond(w, code)) /\ UNCHANGED ingressVars
    BY <1>1 DEF AlreadyTerminal, ReleaseForRetry
  <2> QED
    BY <2>1, AnswersStay DEF ingressVars
<1>2. CASE CacheAndRespond(w)
  <2>1. /\ pc[w] # "idle" /\ job[w] \in Bookings
        /\ \E code \in {200, 489, 500} : Respond(w, code)
        /\ ingress' = ingress /\ cached' = [cached EXCEPT ![job[w]] = StatusOf(body[w])]
    BY <1>2 DEF CacheAndRespond, BusyHasJob
  <2>2. StatusOf(body[w]) # "ACCEPTED"
    BY DEF StatusOf
  <2> QED
    BY <2>1, <2>2, AnswersStay
<1>3. CASE SeesPending(w) \/ ReuseHold(w) \/ NoHoldYet(w) \/ AllocateSeat(w) \/ SoldOut(w)
        \/ LookupPayment(w) \/ InsertPayment(w) \/ PaymentUnavailable(w) \/ ConfirmReads(w)
  BY <1>3
  DEF SeesPending, ReuseHold, NoHoldYet, AllocateSeat, SoldOut, GoTerminal, LookupPayment,
      InsertPayment, PaymentUnavailable, ConfirmReads, Step, transportVars, ingressVars
<1>4. CASE Confirm(w) \/ ConfirmSeatOnly(w) \/ ConfirmNothing(w) \/ Refund(w)
        \/ InsertDlqJob(w) \/ Unseat(w) \/ FailBooking(w)
  BY <1>4
  DEF Confirm, ConfirmSeatOnly, ConfirmNothing, Refund, InsertDlqJob, Unseat, FailBooking,
      Step, transportVars, ingressVars
<1> QED
  BY <1>1, <1>2, <1>3, <1>4 DEF WorkerStep

\* Any step of the engine.
LEMMA NextPublishes ==
  ASSUME Typed, [Next]_vars
  PROVE  Publishes
<1> USE DEF Typed, TypeOK, TransportTypeOK, IngressTypeOK, Publishes, transportVars, ingressVars
<1>1. ASSUME NEW b \in Bookings, IngressNext(b) PROVE Publishes
  BY <1>1
  DEF IngressNext, CreateBooking, PublishAllocateJob, PublishFails, MarkUnpublished,
      CacheRejected, CacheAccepted, Ingress, IngressDies, Enqueue
<1>2. ASSUME NEW w \in Workers, WorkerStep(w) PROVE Publishes
  BY <1>2, WorkerPublishes
<1>3. ASSUME NEW w \in Workers, NEW b \in Bookings, Deliver(w, b) \/ DeliverCallback(w, b)
      PROVE  Publishes
  BY <1>3 DEF Deliver, DeliverCallback, Move
<1>4. ASSUME NEW w \in Workers, Throws(w) PROVE Publishes
  <2>1. pc[w] # "idle" /\ (\E code \in {200, 489, 500} : Respond(w, code)) /\ UNCHANGED ingressVars
    BY <1>4 DEF Throws
  <2> QED
    BY <2>1, AnswersStay
<1>5. ASSUME NEW w \in Workers, Dies(w) PROVE Publishes
  BY <1>5 DEF Dies
<1>6. ASSUME NEW b \in Bookings, BrokerGivesUp(b) PROVE Publishes
  BY <1>6 DEF BrokerGivesUp, GiveUpWaiting, RetryOrGiveUp, Move
<1>7. ASSUME NEW s \in Seats, Expire(s) PROVE Publishes
  BY <1>7 DEF Expire
<1>8. Sweep => Publishes
  BY DEF Sweep
<1>9. UNCHANGED vars => Publishes
  BY DEF vars
<1> QED
  BY <1>1, <1>2, <1>3, <1>4, <1>5, <1>6, <1>7, <1>8, <1>9 DEF Next

Published(b) == bookingStatus[b] # "ABSENT" /\ phase[b] # "unpublished"

PublishedInv ==
  /\ Truthful /\ RequestTyped /\ Unanswered
  /\ \A r \in Requests : req[r] = "unsent" => seen[r] = "absent"
  /\ \A b \in Bookings : ingress[b] = "published" \/ cached[b] = "ACCEPTED" => Published(b)
  /\ \A r \in Requests : seen[r] = "ACCEPTED" => Published(key[r])
  /\ AcceptedIsPublished

\* What a step has a request say: ACCEPTED is passed on from the key's row, or
\* said first by the request that published.
PassesOn ==
  \A r \in Requests :
    /\ req'[r] = "unsent" => req[r] = "unsent" /\ seen'[r] = seen[r] /\ reply'[r] = reply[r]
    /\ seen'[r] = "ACCEPTED" =>
         /\ key'[r] = key[r] /\ key[r] \in Bookings
         /\ seen[r] = "ACCEPTED" \/ cached[key[r]] = "ACCEPTED"
    /\ reply'[r] = "ACCEPTED" =>
         /\ key'[r] = key[r] /\ key[r] \in Bookings
         /\ \/ reply[r] = "ACCEPTED" \/ seen[r] = "ACCEPTED"
            \/ ingress[key[r]] = "published"

\* A step of a request does no more than that,
LEMMA RequestPassesOn ==
  ASSUME PublishedInv, NEW r \in Requests, RequestStep(r)
  PROVE  PassesOn
<1> USE DEF PublishedInv, RequestTyped, Unanswered, PassesOn
<1>0. req[r] # "unsent" /\ key[r] \in Bookings
  BY DEF RequestStep, Refuse, PassGates, PassFence, TakeSnapshot, ClaimKey, ExistingKey, NoRow,
         Proceed, Accept, Reject, Fail, Reply, At
<1>1. ASSUME NEW from, NEW what, Reply(r, from, what),
             what = "ACCEPTED" => seen[r] = "ACCEPTED" \/ ingress[key[r]] = "published"
      PROVE  PassesOn
  BY <1>0, <1>1 DEF Reply, At
<1>2. CASE Refuse(r) \/ NoRow(r) \/ Reject(r) \/ Fail(r)
  BY <1>1, <1>2 DEF Refuse, NoRow, Reject, Fail
<1>3. CASE PassGates(r) \/ PassFence(r) \/ ClaimKey(r)
  BY <1>0, <1>3 DEF PassGates, PassFence, ClaimKey, At
<1>4. CASE TakeSnapshot(r)
  BY <1>0, <1>4 DEF TakeSnapshot, At
<1>5. CASE ExistingKey(r)
  <2> DEFINE what == CASE keyHash[key[r]] # hash[r] -> "mismatch"
                       [] keyHash[key[r]] = hash[r] /\ seen[r] = "none" -> "inflight"
                       [] OTHER -> seen[r]
  <2>1. Reply(r, "claim", what)
    BY <1>5 DEF ExistingKey
  <2>2. what = "ACCEPTED" => seen[r] = "ACCEPTED"
    OBVIOUS
  <2> HIDE DEF what
  <2> QED
    BY <1>1, <2>1, <2>2
<1>6. CASE Proceed(r)
  BY <1>0, <1>6 DEF Proceed, admissionVars, requestVars
<1>7. CASE Accept(r)
  BY <1>1, <1>7 DEF Accept, CacheAccepted, Ingress
<1> QED
  BY <1>2, <1>3, <1>4, <1>5, <1>6, <1>7 DEF RequestStep

\* nor does any other step.
LEMMA AllPassOn ==
  ASSUME PublishedInv, [AdmissionNext]_allVars
  PROVE  PassesOn
<1> USE DEF PublishedInv, RequestTyped, Unanswered, PassesOn
<1>1. ASSUME UNCHANGED requestVars PROVE PassesOn
  BY <1>1 DEF requestVars
<1>2. ASSUME NEW r \in Requests, NEW b \in Bookings, NEW h \in Hashes, Send(r, b, h)
      PROVE  PassesOn
  BY <1>2 DEF Send
<1>3. ASSUME NEW r \in Requests, RequestStep(r) PROVE PassesOn
  BY <1>3, RequestPassesOn
<1>4. ASSUME NEW b \in Bookings, FenceExpires(b) PROVE PassesOn
  BY <1>1, <1>4 DEF FenceExpires
<1>5. UNCHANGED admissionVars => PassesOn
  BY <1>1 DEF admissionVars
<1> QED
  BY <1>2, <1>3, <1>4, <1>5 DEF AdmissionNext, allVars

\* PublishedInv is inductive.
LEMMA PublishedStep == PublishedInv /\ [AdmissionNext]_allVars => PublishedInv'
<1> SUFFICES ASSUME PublishedInv, [AdmissionNext]_allVars PROVE PublishedInv'
  OBVIOUS
<1>1. Typed /\ Known /\ RequestTyped
  BY DEF PublishedInv, Truthful, Safe
<1>2. [Next]_vars
  BY <1>1, AdmissionDrivesEngine
<1>3. Truthful' /\ Publishes /\ RowsStay /\ RequestTyped'
  BY <1>1, <1>2, TruthfulStep, NextPublishes, NextRowsStay, AllTypedStep DEF PublishedInv
<1>4. PassesOn
  BY AllPassOn
<1>5. \A b \in Bookings : Published(b) => Published(b)'
  BY <1>3 DEF Published, RowsStay, Publishes
<1>6. \A b \in Bookings : ingress'[b] = "published" \/ cached'[b] = "ACCEPTED" => Published(b)'
  <2> SUFFICES ASSUME NEW b \in Bookings, ingress'[b] = "published" \/ cached'[b] = "ACCEPTED"
               PROVE  Published(b)'
    OBVIOUS
  <2>1. CASE Published(b)
    BY <1>5, <2>1
  <2>2. CASE ~Published(b)
    <3>1. ingress'[b] = "published" /\ phase'[b] # "unpublished"
      BY <1>3, <2>2 DEF PublishedInv, Publishes
    <3>2. bookingStatus'[b] # "ABSENT"
      BY <1>3, <3>1 DEF Truthful, Known
    <3> QED
      BY <3>1, <3>2 DEF Published
  <2> QED
    BY <2>1, <2>2
<1>7. \A r \in Requests : seen'[r] = "ACCEPTED" => Published(key[r])'
  BY <1>4, <1>5 DEF PassesOn, PublishedInv
<1>8. AcceptedIsPublished'
  BY <1>4, <1>5 DEF PassesOn, PublishedInv, AcceptedIsPublished, Published
<1>9. Unanswered' /\ \A r \in Requests : req'[r] = "unsent" => seen'[r] = "absent"
  BY <1>4 DEF PassesOn, PublishedInv, Unanswered
<1> QED
  BY <1>3, <1>6, <1>7, <1>8, <1>9 DEF PublishedInv

\* Nobody is told ACCEPTED, at first hand or in a replay, before the booking is in
\* the table and its job is with the broker.
THEOREM AcceptedIsWithTheBroker == AdmissionSpec => []AcceptedIsPublished
<1>1. AdmissionInit => PublishedInv
  <2> SUFFICES ASSUME AdmissionInit PROVE PublishedInv
    OBVIOUS
  <2>1. Truthful /\ RequestTyped
    BY AdmissionInits, TruthfulInit
  <2> QED
    BY <2>1 DEF AdmissionInit, Init, PublishedInv, Unanswered, AcceptedIsPublished
<1>2. PublishedInv => AcceptedIsPublished
  BY DEF PublishedInv
<1> QED
  BY <1>1, <1>2, PublishedStep, PTL DEF AdmissionSpec
=============================================================================
