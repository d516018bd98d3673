------------------------------ MODULE Admission ------------------------------
(***************************************************************************)
(* POST /api/book from its first line: requests of clients that retry and  *)
(* double-click, the admission gates, the Redis fence and the Postgres     *)
(* idempotency check, in front of the engine of Reservation.               *)
(*                                                                         *)
(* An idempotency key has at most one booking, so a booking id stands for  *)
(* its key too.  A request that is told its key is fresh goes on with the  *)
(* ingress actions of Reservation on that booking.                         *)
(***************************************************************************)
EXTENDS Reservation

CONSTANTS
  Requests,       \* POSTs
  Hashes,         \* request hashes of the bodies clients send
  NoHash          \* there is no idempotency_keys row

ASSUME HashAssumption == NoHash \notin Hashes

VARIABLES
  keyHash,        \* idempotency_keys.request_hash of the booking's key
  fenced,         \* keys whose Redis fence is set
  req,            \* where the request is
  key, hash,      \* its Idempotency-Key and the hash of its body
  seen,           \* what idempotency_check's snapshot shows of its key
  reply           \* what the client has been answered

requestVars   == <<req, key, hash, seen, reply>>
admissionVars == <<keyHash, fenced, requestVars>>
engineVars    == vars
allVars       == <<engineVars, admissionVars>>

ReqStates == {"unsent", "gates", "fence", "snapshot", "claim", "fresh", "done"}

\* A cached body is replayed as it is; "ACCEPTED" and "REJECTED" are also the
\* first answers, 202 and 502.
Replies == {"none", "refused", "mismatch", "inflight", "no_row", "error"}
             \cup (CacheStates \ {"none"})

AdmissionTypeOK ==
  /\ TypeOK
  /\ keyHash \in [Bookings -> Hashes \cup {NoHash}]
  /\ fenced \subseteq Bookings
  /\ req \in [Requests -> ReqStates]
  /\ key \in [Requests -> Bookings \cup {NoBooking}]
  /\ hash \in [Requests -> Hashes \cup {NoHash}]
  /\ seen \in [Requests -> CacheStates \cup {"absent"}]
  /\ reply \in [Requests -> Replies]

AdmissionInit ==
  /\ Init
  /\ keyHash = [b \in Bookings |-> NoHash]
  /\ fenced = {}
  /\ req = [r \in Requests |-> "unsent"]
  /\ key = [r \in Requests |-> NoBooking]
  /\ hash = [r \in Requests |-> NoHash]
  /\ seen = [r \in Requests |-> "absent"]
  /\ reply = [r \in Requests |-> "none"]

-----------------------------------------------------------------------------
(* Up to the verdict. *)

At(r, from, to) ==
  /\ req[r] = from
  /\ req' = [req EXCEPT ![r] = to]
  /\ UNCHANGED <<key, hash>>

Reply(r, from, what) ==
  /\ At(r, from, "done")
  /\ reply' = [reply EXCEPT ![r] = what]
  /\ seen' = [seen EXCEPT ![r] = "absent"]

Send(r, b, h) ==
  /\ req[r] = "unsent"
  /\ req' = [req EXCEPT ![r] = "gates"]
  /\ key' = [key EXCEPT ![r] = b]
  /\ hash' = [hash EXCEPT ![r] = h]
  /\ UNCHANGED <<engineVars, keyHash, fenced, seen, reply>>

\* 400 for the header or the body, 429, or 503 from the queue-depth gate.
Refuse(r) ==
  /\ Reply(r, "gates", "refused")
  /\ UNCHANGED <<engineVars, keyHash, fenced>>

\* Both gates let a request through when Redis or the broker does not answer.
PassGates(r) ==
  /\ At(r, "gates", "fence")
  /\ UNCHANGED <<engineVars, keyHash, fenced, seen, reply>>

\* redisFence: SET NX.  Whether it was acquired, held or unreachable is only
\* counted; the request goes on in every case.
PassFence(r) ==
  /\ At(r, "fence", "snapshot")
  /\ fenced' = fenced \cup {key[r]} \/ UNCHANGED fenced
  /\ UNCHANGED <<engineVars, keyHash, seen, reply>>

FenceExpires(b) ==
  /\ b \in fenced
  /\ fenced' = fenced \ {b}
  /\ UNCHANGED <<engineVars, keyHash, requestVars>>

\* idempotency_check is one statement: INSERT ... ON CONFLICT DO NOTHING and a
\* SELECT that see the same snapshot.
TakeSnapshot(r) ==
  /\ At(r, "snapshot", "claim")
  /\ seen' = [seen EXCEPT ![r] = IF keyHash[key[r]] = NoHash THEN "absent" ELSE cached[key[r]]]
  /\ UNCHANGED <<engineVars, keyHash, fenced, reply>>

\* A SELECT decides, and the INSERT overwrites.
BugClaimKey(r) ==
  /\ At(r, "claim", "fresh")
  /\ seen[r] = "absent"
  /\ keyHash' = [keyHash EXCEPT ![key[r]] = hash[r]]
  /\ UNCHANGED <<engineVars, fenced, seen, reply>>

\* source = 'inserted'.
ClaimKey(r) ==
  /\ At(r, "claim", "fresh")
  /\ keyHash[key[r]] = NoHash
  /\ keyHash' = [keyHash EXCEPT ![key[r]] = hash[r]]
  /\ UNCHANGED <<engineVars, fenced, seen, reply>>

\* The cached response is looked at before the hash.
BugReplayFirst(r) ==
  /\ seen[r] # "absent"
  /\ Reply(r, "claim", CASE seen[r] # "none" -> seen[r]
                         [] seen[r] = "none" /\ keyHash[key[r]] = hash[r] -> "inflight"
                         [] OTHER -> "mismatch")
  /\ UNCHANGED <<engineVars, keyHash, fenced>>

\* A missing row is taken for a row without a response.
BugMissingRow(r) ==
  /\ Reply(r, "claim", IF keyHash[key[r]] # hash[r] THEN "mismatch" ELSE seen[r])
  /\ keyHash[key[r]] # NoHash
  /\ UNCHANGED <<engineVars, keyHash, fenced>>

\* source = 'existing': replay, 409 or 400.
ExistingKey(r) ==
  /\ seen[r] # "absent"
  /\ Reply(r, "claim", CASE keyHash[key[r]] # hash[r] -> "mismatch"
                         [] keyHash[key[r]] = hash[r] /\ seen[r] = "none" -> "inflight"
                         [] OTHER -> seen[r])
  /\ UNCHANGED <<engineVars, keyHash, fenced>>

\* The INSERT conflicts with a row committed after the snapshot: it does
\* nothing and the SELECT finds nothing.  idempotencyCheck throws.
NoRow(r) ==
  /\ Reply(r, "claim", "no_row")
  /\ seen[r] = "absent"
  /\ keyHash[key[r]] # NoHash
  /\ UNCHANGED <<engineVars, keyHash, fenced>>

-----------------------------------------------------------------------------
(* The fresh path: the ingress actions of Reservation. *)

Proceed(r) ==
  /\ req[r] = "fresh"
  /\ LET b == key[r] IN
       CreateBooking(b) \/ PublishAllocateJob(b) \/ PublishFails(b) \/ MarkUnpublished(b)
  /\ UNCHANGED admissionVars

Accept(r) ==
  /\ Reply(r, "fresh", "ACCEPTED")
  /\ CacheAccepted(key[r])
  /\ UNCHANGED <<keyHash, fenced>>

Reject(r) ==
  /\ Reply(r, "fresh", "REJECTED")
  /\ CacheRejected(key[r])
  /\ UNCHANGED <<keyHash, fenced>>

\* The request fails with 500, its own or the platform's: a statement outside a
\* try block throws, createBooking does, or the function dies.
Fail(r) ==
  /\ \E from \in {"gates", "fence", "snapshot", "claim", "fresh"} : Reply(r, from, "error")
  /\ IF req[r] = "fresh" /\ ingress[key[r]] # "idle"
     THEN IngressDies(key[r]) ELSE UNCHANGED engineVars
  /\ UNCHANGED <<keyHash, fenced>>

-----------------------------------------------------------------------------
RequestStep(r) ==
  \/ Refuse(r) \/ PassGates(r) \/ PassFence(r) \/ TakeSnapshot(r)
  \/ ClaimKey(r) \/ ExistingKey(r) \/ NoRow(r)
  \/ Proceed(r) \/ Accept(r) \/ Reject(r) \/ Fail(r)

\* Everything behind the ingress.
EngineNext ==
  \/ \E b \in Bookings : BrokerGivesUp(b)
  \/ \E w \in Workers, b \in Bookings : Deliver(w, b) \/ DeliverCallback(w, b)
  \/ \E w \in Workers : WorkerStep(w) \/ Throws(w) \/ Dies(w)
  \/ \E s \in Seats : Expire(s)
  \/ Sweep

AdmissionNext ==
  \/ \E r \in Requests, b \in Bookings, h \in Hashes : Send(r, b, h)
  \/ \E r \in Requests : RequestStep(r)
  \/ \E b \in Bookings : FenceExpires(b)
  \/ EngineNext /\ UNCHANGED admissionVars

AdmissionSpec == AdmissionInit /\ [][AdmissionNext]_allVars

\* Requests run to their answer and the engine is fair.
AdmissionFairSpec ==
  /\ AdmissionSpec
  /\ \A r \in Requests : WF_allVars(RequestStep(r))
  /\ Fairness

-----------------------------------------------------------------------------
(* What must hold. *)

\* Of all the requests that race with one key, at most one is told it is fresh,
\* and only that one may create the booking and publish its job.
OneFreshRequest ==
  \A q, r \in Requests : req[q] = "fresh" /\ req[r] = "fresh" /\ key[q] = key[r] => q = r

\* No request is answered with what another body was answered: a replay, and a
\* first answer, only ever go to the body the key was claimed with.
RepliesMatchBody ==
  \A r \in Requests : reply[r] \in CacheStates \ {"none"} => keyHash[key[r]] = hash[r]

\* Whoever is told ACCEPTED, at first hand or in a replay, has a booking with a
\* published job behind it.
AcceptedIsPublished ==
  \A r \in Requests : reply[r] = "ACCEPTED" =>
    bookingStatus[key[r]] # "ABSENT" /\ phase[key[r]] # "unpublished"

-----------------------------------------------------------------------------
(* What comments and documents of the repository say and the code does not do. *)

\* idempotency_check always returns one row.
CheckReturnsRow == \A r \in Requests : reply[r] # "no_row"

\* A replay is rejected at the Redis fence while the fence is set.
FenceAbsorbsReplay ==
  [][\A r \in Requests : req[r] = "fence" /\ key[r] \in fenced => req'[r] # "snapshot"]_allVars

\* A client that retries with the same key gets the original answer: sooner or
\* later there is one.
ClaimedKeyIsAnswered ==
  \A b \in Bookings : keyHash[b] # NoHash ~> cached[b] # "none"
=============================================================================
