# Trains and Tracks: a formal model of the booking engine

TLA+ modules, TLC runs and TLAPS proofs for the seat-booking service in this
repository: a Next.js application whose state lives in Postgres (seats,
bookings, payments, idempotency keys, a DLQ mirror), whose work is delivered by
a message broker (QStash) and whose admission control lives in Redis.

## 1. Inventory

| component | state | operations | talks to |
|---|---|---|---|
| POST /api/book (`app/api/book/route.ts`) | none of its own; one request at a time | validate, rate limit, depth gate, fence, idempotency check, create, publish, cache 202 or roll back with 502 | Redis, Postgres, broker |
| Idempotency (`lib/idempotency`, `idempotency_check`, `write_idempotency_response`) | `idempotency_keys`: hash and cached response per key; a 60 s Redis fence | claim or read a key, overwrite its response | called by ingress, worker, webhook |
| Tables and stored functions (`supabase/migrations`) | `seats`, `bookings`, `payments` | `allocate_seat`, `confirm_booking`, `release_hold_retryable`, `release_hold_terminal`, `sweep_expired_holds` | called by worker, webhook, sweeper |
| Allocate worker (`app/api/worker/allocate/route.ts`) | locals of one invocation | read the booking, allocate, charge, confirm or release, cache, answer 200/489/500 | Postgres, payment service |
| Payment service (`lib/payment/mock-service.ts`) | `payments`, one row per idempotency key | charge once per key, replay, refund (logs only) | worker |
| Failure webhook (`app/api/webhooks/qstash-failure/route.ts`) | `dlq_jobs` | record the job, fail the booking, cache FAILED | broker, Postgres |
| Sweeper (`app/api/sweeper/expire-holds/route.ts`) | none | free expired holds, expire their bookings | Postgres |
| Broker (QStash, external; `infra/qstash/publisher.ts`) | messages, attempts | deliver at least once, retry 3 times, failure callback | worker, webhook |
| Policies (`lib/resilience`) | breaker state per process | timeout, retry, breaker around every database and payment call | worker, sweeper |
| Admin authentication (`lib/admin/auth.ts`, `lua-sliding-log.ts`) | a log of hits per token and bucket | admit or refuse with Retry-After | Redis; in front of every operator endpoint |
| Reset (`app/api/admin/reset`) | none | five statements that empty the demo | Postgres, against running workers |
| DLQ list and retry (`app/api/admin/dlq`) | `dlq_jobs` | list; publish a dead job's payload again | Postgres, broker |
| Local queue (`publisher.ts`, `run-worker-job.ts`) | a promise chain per train, in the process | chain a job, run it in place of the worker | Postgres, payment service |
| Load simulator (`app/api/simulate`) | the key `simulate:running` | claim, answer 202, fire in chunks, release | Redis, ingress |
| Chaos injection (`app/api/admin/kill-worker`, `lib/chaos`) | the counter `chaos:worker:fail-next` | arm; read and write back at the head of every job | Redis, worker |
| Queue-depth gate (`queue-depth-gate.ts`) | a cached depth | read the cache, probe the broker, write the cache, decide | Redis, broker, ingress |
| Metrics (`lib/metrics`) | counters and an in-flight flag per instance | count, snapshot, push after the response | Grafana; called by every handler |
| Booking page (`app/book/page.tsx`) and poll (`app/api/book/[jobId]`) | the page's outcome, its seat grid | submit, poll | ingress, `bookings`, seats endpoint |
| Operations page (`app/ops/page.tsx`) and its endpoints | the secret, five polled panels, a busy flag | poll, edit the secret, press a button | live-stats, recent-bookings, DLQ list, insights; operator endpoints |

What is hard here: every SQL statement of a plpgsql function has its own
snapshot (READ COMMITTED), so functions are not atomic; the broker delivers a
job again while the first invocation still runs; an invocation may die between
any two statements; replies are lost and calls repeated; the sweeper and the
failure callback race with workers; ingress and worker write the same cached
response; flags in Redis are read, written and deleted in separate calls and
expire in between; calls given up on land late; polls overlap. `PROJECT.json` lists each of these hazards at its line with the
properties aimed at it.

Properties that make each part correct, beyond types: a seat is sold once and
stays sold; a booking is decided once and stays decided; CONFIRMED means one
seat and one successful charge; nobody takes a live hold; no hold stays for
ever; a published booking is settled; one key has one fresh request, and its
answer goes to no other body; an operator's reset leaves tables that agree; the
page tells the truth about the booking it names and its spinner ends; the admin
limiter admits no more than its limit; a job in the local queue is served in
turn; simulator, chaos and metrics free what they hold, whatever dies; no depth
older than its bound decides about a request; a panel shows its source in the
end, and nothing that was asked for with an earlier secret.

## 2. Modules

| module | models | composed of |
|---|---|---|
| `Ids` | seats, bookings and their null values | |
| `SeatSale` | abstract specification: seats are sold to open bookings, or bookings are turned down; once and for all | `Ids` |
| `SeatStore` | tables `seats`, `bookings`, `payments` and each SQL statement that changes them | `Ids` |
| `Transport` | the broker: a message per booking, attempts, the failure callback (external) | `Ids` |
| `Reservation` | ingress after admission, worker, webhook, sweeper, time | `SeatStore`, `Transport`; implements `SeatSale` |
| `Admission` | the requests with one key in front of that: gates, fence, `idempotency_check`, replay | `Reservation` |
| `DemoReset` | the five statements of POST /api/admin/reset, and what invocations do whose rows are gone | `Reservation` |
| `BookPage` | the page's dialog, POST, timers and fetches | `SeatSale` as the engine |
| `AdminLimiter` | the sliding-window log of the admin endpoints | |
| `LocalQueue` | QSTASH_DEV_BYPASS: the chain of a train, late calls, restarts | `Reservation`; implements `SeatSale` |
| `DlqRetry` | the operator's second publish of a dead-letter job | `Reservation`; implements `SeatSale` |
| `Simulator` | the claim `simulate:running` and the runs that hold it | |
| `ChaosGate` | the chaos counter, read and written back in two calls | |
| `DepthGate` | the cached queue depth and the verdicts it gives | |
| `MetricsPush` | counters, snapshot and in-flight flag of server instances | |
| `LivePanels` | the polled panels of /ops, the seat grid of /book, the endpoints behind them | |
| `Operations` | the five modules above; they share no state, and in each behaviour one of them moves | all five |
| `MC*` | constraints, symmetry and initial states for TLC | the module of that name |
| `*Proofs` | theorems and proofs (`OperationsProofs` also those of the five parts) | the module of that name |

### How the code becomes state and actions

*Statements and snapshots.* Postgres runs at READ COMMITTED: every statement of
a plpgsql function has a snapshot of its own. An action of `Reservation` is
therefore one statement, not one function: `allocate_seat` is `ReuseHold` or
`NoHoldYet` and then `AllocateSeat`; `confirm_booking` is `ConfirmReads` and then
`Confirm`, `ConfirmSeatOnly` (its second UPDATE finds no row any more) or
`ConfirmNothing`; `release_hold_terminal` is `Unseat` and then `FailBooking`;
`idempotency_check` is `TakeSnapshot` and then `ClaimKey`, `ExistingKey` or
`NoRow`. `sweep_expired_holds` and `release_hold_retryable` are one statement
each. `FOR UPDATE SKIP LOCKED` takes any AVAILABLE seat, or none: the row may be
locked by a transaction that is still open and may yet be rolled back, so
`SoldOut` has no condition on the seats. `now()` does not move
within a transaction: `began` remembers whether a hold was live when the
transaction of `confirm_booking` began, and `holdLive` stands for
`held_until > now()`.

*Invocations.* A worker has a `pc` with the statement it is about to execute and
the locals the handler keeps: `job`, `retried`, `rows` (the id of the hold),
`body`. The worker's and the webhook's invocations come from one pool `Workers`.
`Throws` is an error every caller turns into 500, `Dies` is the end of an
invocation at its time limit or in a crash. A policy (`pgPolicy`,
`paymentPolicy`) repeats a call whose reply was lost, so a worker may execute a
statement and stay where it was, and a call that timed out may still commit.

*The broker* delivers at least once: `BrokerGivesUp` stops waiting while the
invocation runs on, so that the next delivery runs beside it. After
`MaxRetries` the failure callback is delivered until the webhook answers with
success. `publishAllocateJob` may fail although the message was queued.

*Cached responses.* `cached` is `idempotency_keys.response_body`, abstracted to
the outcome it tells: the 202, the 502 tombstone, or a terminal status. Worker
and webhook write it without looking at the row of the booking.

*Admission* keeps a request's place in the pipeline and what it read. Both gates
fail open and depend on counters of a library or of the broker, so each may admit
or refuse at any time. The fence expires at any time. `expires_at` is written
and never read, so keys live for good.

*DemoReset* adds the five statements to the running engine. A deleted row of
`bookings` is ABSENT, like one never inserted. The foreign keys and the CHECK on
`seats` decide which statements are refused, those of reset and those of the
worker: a hold for a deleted booking is a foreign-key violation. Keys have a life
of their own: a key bears the name of the first booking made with it (`key`);
reset deletes the rows of the last hour, which may be any of them (`forgotten`),
and leaves the others (`kept`); a client may post a deleted key again, for a new
booking (`PostAgain`). `WriteReply` is `write_idempotency_response`, an UPDATE by
key: what is left of an old booking writes nothing when the row is gone, and
overwrites the new booking's row when there is one. Two bookings with one key
also share the payment row (`SharePayment`). Rows of `dlq_jobs` that an operator
has resolved stay.

*BookPage.* `shown` is the page's `outcome`; the effect on it is `Show` and
`PollAgain`; `armed` is the timer that `clearTimeout` cancels, `polls` the
fetches nothing cancels. Behind the page stands `SeatSale`, which `Reservation`
is proved to implement, so the page is checked against everything the engine
may do, and a little more.

*AdminLimiter.* A caller takes `Date.now()` and then sends the script, so
scripts run in another order than their timestamps; `MaxDelay` is how long a
script may be on its way before its call fails. Retry-After is rounded up to
whole seconds of `Second` milliseconds. `hits` remembers what was admitted.

*LocalQueue.* `queue` is the chain of promises, `order` remembers in which order
bookings were published. A job's statements are `Reservation`'s, taken block by
block as `runWorkerJob` has them; `retried` is 0, `phase` stays "unpublished", no
sweeper and no callback is assumed. Database and payment calls run under
aggressive timeouts: `CallTimesOut` ends the call for the job and keeps it in
`late`, from where it reaches Postgres at any later time, or never; `CallAgain` is
the policy's retry, from the function's first statement. A late `allocate_seat`
is two steps: `LateLocks` takes the row lock, `LateAllocate` updates and commits,
and `LateVanishes` rolls back. While it is open a job that asks for a seat passes
over the locked row (`Locked`) and is told that there is none.

*DlqRetry.* `again` holds the bookings whose payload was published again. The
route does not look at the booking and sends no deduplication id, so such a
booking may be delivered to any free invocation at any time, with any attempt
number, and reported as failed again. This covers any number of clicks.

*Simulator.* `lock` is the key; `run` where a request or its background run is.
`DEL` is unconditional and a run sends more than one: at the end of `fireAll`
("ending"), again in its catch when something threw, that DEL included ("caught"),
and again whenever the Redis client repeats a command whose reply was lost.
`DelLands` is Redis executing one of them, on time or late, and takes the key from
whoever has it; `dels` counts them. A SET whose request failed may land as well
(`ClaimLands`), and one that is repeated finds its own claim (`Busy`).
`LockExpires` is the TTL; `overran` remembers the runs whose claim it took before
a DEL of theirs had executed (`Owing`).

*ChaosGate.* `saw[i]` is the counter an invocation has read and not yet written
back. Every write is `OneLess` of what was read, not of what is there.

*DepthGate.* `cache` is the reading in Redis, `probe` the reading on its way to a
request, from Redis or from the broker, `writes` those on their way to the cache,
for which nobody waits. The GET and its answer are two steps (`ReadCache`,
`CacheAnswers`), like the broker's (`Probe`, `ProbeAnswers`): what a verdict rests on
has aged by both. A SET whose reply was lost is sent again, so a write may land
more than once. `since` dates the call under way, and `CALL` bounds it.
`verdict.age` is how old the reading was on which the last answer rests.

*MetricsPush.* `flush[c]` follows the callback a handler registers with `after()`.
The failure webhook and the jobs of the local queue register none and count all
the same (`BeginSilent`). `pushing` is `pushingInFlight` of an instance; `missed`
remembers that a flush was skipped or a push failed since the last snapshot,
`unflushed` that a call without a flush has counted since then. All instances
write one remote series, because the labels do not name the instance.

*LivePanels.* A panel is an effect that polls on a timer; `gen` counts the runs of
its effect (one per secret), `flight` holds the polls under way with the secret
they were sent with and the versions of the source they have read: four for
live-stats, one statement each. The insights and seats panels stand behind a CDN
that answers with what it has kept (`edge`). `busy` and `calls` are the flag of the
buttons and the admin calls that are really under way.

## 3. Runs

| run | constants | shows |
|---|---|---|
| `duplicates` | 1 booking, 2 seats, 2 workers, 1 retry | one booking from its POST on under crashes, redelivery, zombies, lost replies, the failure callback and dead-letter retries |
| `contention` | 2 bookings, 2 seats, 2 workers; both accepted already, or one followed from its POST | holds, confirmations and refinement of `SeatSale` when bookings compete and the sweeper moves seats between them |
| `progress` | 1 booking, 1 seat, 2 workers, 1 retry | holds and bookings are resolved, with fairness |
| `retries` | 2 requests, 1 key, 2 bodies, 1 worker | idempotency under racing requests, with the engine behind it |
| `reset` | 2 bookings of which one is asked for during the reset, 1 seat, 1 worker, no retries | reset against running invocations, keys it keeps and keys that are posted again; about two minutes |
| `page` | 2 bookings, 2 seats, `POLL_MAX` 2 | the dialog and its polling chains |
| `window` | 2 callers, limit 2, window 4, second 3, delay 2, clock up to 10 | the sliding log over more than two windows |
| `queue` | 2 bookings, 1 seat, 2 invocations; a call is repeated while none other is under way | the local queue: turns, late calls and their row locks, restarts, and the sale |
| `operations` | 3 simulator runs of 1 request in chunks of 2, 2 DELs each; 3 chaos invocations, up to 2 faults armed twice, 1 failed write; 2 gate requests, cache 2 s, calls 1 s, 1 write at a time, clock up to 5; 2 instances, 3 requests, 2 increments each; 2 polls at once, 1 change of the source, 3 secrets or reloads, 1 failed answer | the parts around the sale, one at a time |

Why the bounds are enough: two invocations of one booking are needed for every
race between a delivery and a redelivery, the callback or a zombie, and a third
invocation would find what the second left; two seats let those two hold a seat
each; two bookings on two seats let a swept seat change hands. A retry bound of
1 has a delivery that is retried and one that is the last. Two requests cover
each pair of places in the pipeline, and the second body tells a replay from a
conflict. The page's second booking is the one a late answer of the first may
overwrite. In `window` 3 does not divide 4, so that rounding happens, and the
clock passes the key's TTL. In `queue` the one seat makes the order of two
bookings matter, and the second invocation is there for a chain that would not
wait; one repeated call beside those that timed out is what it takes for a call
to hold the seat while its own successor asks for one. In `reset` the second
booking is posted while reset runs, with a key of its own or with the first
one's. In `operations` the third simulator run is the one that starts when the
first deletes the claim of the second, and a second DEL is the one the catch
sends; one request in chunks of two is a batch that is shorter than a chunk; three
invocations reach the bound of `FaultsAreBounded`; the clock passes the cache's
lifetime and the three calls of a reading's way (the bound of `VerdictsAreFresh` is
missed by one second); an instance
serves two of the three requests, so that one flush is skipped for another; two
polls are what it takes to overtake, and three edits lead from one secret to
another and back. The bounds in the guards are `MaxRetries` (the
broker's), `POLL_MAX` (the page's), `MaxDels` (`Simulator`), `MaxArms` and `MaxLost` (`ChaosGate`), `CALL`
and `MaxTime` (`DepthGate`), `MaxCount` (`MetricsPush`), `MaxVersion`, `MaxGens`,
`MaxFails` and the number of `Flights` (`LivePanels`). As constraints: `MaxTime` on
the clock, and in `reset` those of `MCDemoReset.Bounded`: the late POST comes after
reset has started, lives to its end and has a key younger than an hour, its publish
has queued nothing when it fails, the broker gives up on one message at
most and not on the late one's, a charge that fails is declined, and a reset
that gets past its keys is the last. In the next-state relations of `MCLocalQueue`
and `MCOperations`: `MaxLate` calls under way once one is repeated, `MaxWrites` on
their way to the gate's cache, a depth that only grows, and a local POST that fails
only before anything was published. Symmetry is used
only where a run checks no liveness; elsewhere `MCLocalQueue` and `MCOperations` have
the first idle invocation, run, request or call start, `MCLocalQueue` has bookings
published in one order, and `MCOperations` all calls but one at one instance. `VIEW` leaves out variables that are
written and never read by the actions nor by the properties of that run.

Deadlock is not checked: a bounded number of bookings and requests is decided
at some point, and everything may stop.

### Fairness

`FairSpec`: a message that can be delivered is (the broker), an invocation goes
on or dies (the platform's time limit), the broker stops waiting (its delivery
timeout), holds expire (time passes), the sweeper runs (it is scheduled every
minute). The only strong fairness is on `InsertDlqJob`: the callback is delivered
until it is acknowledged, and of the attempts on a reachable database one
succeeds. The client, the ingress and failures are under no fairness.
`PageFairSpec`: timers fire, fetches end; neither user nor engine need act.
`LocalFairSpec`: the event loop takes the next job, a call under a policy times out
at the latest, the other two calls return or throw; nothing is asked of Postgres.
`OpsSpec`: Redis expires its keys (`SimFairness`, `ChaosFairness`), an invocation that
has read the chaos counter fires or dies, a push ends (`PushFairness`: it has a
timeout of three seconds), the panels' intervals tick, their polls end and the
CDN keeps an answer for six seconds (`PanelFairness`). A simulator run is under no
fairness: it may die, and the claim has to end all the same.

## 4. What is proved

For all values of the constants, under the assumptions named in the modules
(`RetryAssumption`, `LimiterAssumption`, `SimAssumption`, `ChaosAssumption`,
`DepthAssumption`, `PushAssumption`, `PanelsAssumption` and that the null values
are no seats, bookings or hashes; `ChaosAssumption` asks that the invocations of the
worker are finitely many, as they are at any moment):

- `ReservationProofs`: `Typing`; `Safety`, which is `ConfirmedHasSeat` and
  `PaidBeforeConfirmed`; `DecisionsAreFinal`; `SalesAreFinal`; `RepliesAreReal`;
  `Refinement` of `SeatSale`; and from that `NoSeatIsSoldTwice`. The argument:
  one lemma, `NextKeeps`, says what any step may do to the tables (sold seats,
  decided bookings and successful charges are kept, and a booking becomes
  CONFIRMED only together with a seat that is reserved for it, in the hands of a
  worker that paid). `ConfirmedHasSeat` and `PaidBeforeConfirmed` are not
  inductive: a worker about to confirm must be known to have been paid. The
  invariant `Safe` is `Typed` (with: a running invocation serves a booking),
  `PaidWorkers` (an invocation past its charge has a successful payment), and
  those two. `RepliesAreReal` says of what is cached that it happened: CONFIRMED is
  a CONFIRMED row, EXPIRED a refund, FAILED a booking that was turned down; FAILED
  over a sold seat comes only with a second invocation for the booking, which the
  code does allow (section 5). The invariant `Truthful` adds what an invocation
  carries in `body` and has yet to cache, and that a booking nobody was called for a
  second time is in the hands of one invocation (`Alone`). `HoldsAreRespected` goes
  statement by statement: each that frees seats frees some of its own booking's,
  because its WHERE asks for the booking again (`OwnHoldsFreed`), however stale the ids
  are that the invocation carries, and the sweeper's asks for the expiry.
  `JobsAreSettled` is the safety half of `PublishedIsSettled`: a job the broker is
  through with is decided or refunded, or has its row in `dlq_jobs` (`NoJobIsLost`).
  `BodyIsBacked` ties the body an invocation is about to answer with to the refund
  or the row that stands behind it.
  `SecondHoldNeedsOverlap` and `SecondSaleNeedsOverlap` say where the second seat of
  section 5 comes from: a booking has a second live hold only after two
  `allocate_seat` calls of it have overlapped, and is sold a second seat only
  after two `confirm_booking` calls have. These two theorems assume of a behaviour
  that the overlap never happens (`AllocatesAlone`, `ConfirmsAlone`), which the broker
  does not promise: they name the cause, and do not say that it is ruled out.
  `OneInvocationOneSeat` draws the conclusion for a broker that would keep to one
  invocation per booking.
- `DlqRetryProofs`: the same properties of the engine with dead-letter jobs that
  are published again. The two new kinds of delivery start an invocation, which
  all that was proved of the engine's steps already covers (`DlqInv`).
  `RetryLosesNothing` is `NoJobIsLost` for the jobs a retry publishes again.
- `AdmissionProofs`: `AdmissionTyping`; `EngineRefined`, by which all of the above
  holds behind the ingress; `OneKeyOneAnswer` and `ReplaysKeepToTheirBody`, from an
  invariant that says which request holds a key and that a row without response
  answers nobody; `AcceptedIsWithTheBroker`, from `PublishedInv`: no row, no snapshot
  and no reply says ACCEPTED before the booking is published; `NoDuplicateAdmission`
  and `BehindTheIngress`, the engine's promises to clients that retry.
- `BookPageProofs`: `PageTyping`, `PageTellsTheTruth`, `PageFollowsOnce`. `PageInv` says of
  every answer that is on its way that it is true of its booking (sold seats and
  decided bookings do not change back), and that a booking has at most one timer
  or fetch.
- `AdminLimiterProofs`: `LimiterTyping`, `LimiterBoundsEveryWindow`,
  `RetryAfterSuffices`. The invariant is `LimiterInv`: a hit that is not in the log
  is at least a window old by the clock of Redis, so a script whose timestamp is
  at most `MaxDelay` old could count it only in the last `MaxDelay` of its window
  (`Recorded`); the key's TTL outlives every hit in it; and when a refused caller's
  time comes, fewer than `limit` hits of the log remain (`SlotIsKept`).
- `LocalQueueProofs`: `LocalTyping`, `LocalSafety`, `LocalRefinement` of `SeatSale`, and
  `FirstComeFirstServed`. The engine's steps keep what they kept; what is new is a
  call that lands after its job gave up on it. `LatePaid` says that a late confirm
  is of a booking that was charged. `InTurn` says that the chain is the tail of what
  was published and that the job that runs was the last one taken; `Seated` that only
  bookings that were taken have seats or late calls, and one whose job has not yet
  asked for a seat has neither a seat nor a row lock: so whoever finds no seat finds
  them with bookings published no later, or locked for those by calls that are still
  open (`HasOrLocks`). That such a seat stays taken is not claimed, nor true (section 5).
- `DemoResetProofs`: `ResetTyping`, `ResetSafety`, `ResetReplies`,
  `StaleJobsAreHarmless`, of `ResetSpec`, which starts as the engine does (the states
  the run `reset` starts from are reachable from there). The invariant `ResetInv` adds
  to these what the foreign key keeps (`NoDangling`: no seat refers to a deleted
  booking), that nothing is cached for a key while its row is gone (`KeysDeleted`),
  and that once the keys are deleted what is cached, or about to be, for a booking
  with a key of its own that came after is true of it (`Anew`). `ResetReplies`
  excludes what the code does not ensure: keys older than an hour, which reset keeps
  with the bodies of deleted bookings, and keys that were posted again, whose rows
  what is left of the old booking overwrites. `OnlyHalfAResetDuplicates`: the counterexample of the run
  `NoDuplicateAllocation` is of the only kind there is: when no reset is under way,
  a duplicate is left only by one that ended between its first two statements.
- `OperationsProofs`, the small parts one by one and then together:
  - simulator: `SimTyped`, `ConcurrentRunsAreCounted`, and from it
    `SingleFlightUntilOverrun`: single flight holds as long as no run outlives its
    claim and no DEL is repeated. A run claims once (`ClaimedOnce`). What is counted
    is wider than the runs that fire: every run whose first DEL is still to execute
    (`Owing`). `DebtsAreCounted` says that those of them without the claim are no
    more than the runs that overran and the DELs that were repeated: a first DEL
    that takes a successor's claim pays one debt and leaves one, a repeated DEL
    leaves one more, and is counted;
  - queue-depth gate: `GateIsFresh`. `ReadingsAreDated` bounds the age of every
    reading under way: one that comes from the broker by `CALL`, one that was found
    in the cache by its lifetime and the two calls that brought it there, and the
    GET's answer adds the third;
  - metrics pusher: `RestIsComplete`, `OnePushAtATime`. `ReportsAreCovered`: what a
    push carries, or the store took, is all the instance has counted, or a flush
    is still due, or was missed, or a call that schedules none has counted since;
  - chaos: `RacingFaultsAreBounded` is `FaultsAreBounded` for any number of invocations
    and faults, and `RacingFaultsAreCounted` the same for any number of orders and of
    failed writes. The invariant is `RaceInv`. Rank the invocations in any order,
    and let each be good for the larger of what the counter holds and what it has
    read: the one ranked t-th, with n left, for C(n - 1 + t, t) faults (`Gain`).
    However they are ranked, the faults fired and this sum stay within the orders
    and the failed writes (`Room`). When an invocation fires and is to leave u, a
    ranking of the state after corresponds to the ranking before in which it has
    changed places with the last one that is good for no more than u
    (`RanksSwap`), and that sum was larger by one at least (`OneFires`, from
    Pascal's rule): the fault is paid for. The bound is
    reached: an order for two faults gives nine when three invocations overlap.
    `SerialFaultsAreCounted` is the case in which invocations do not overlap: "one
    extra time" is then once per failed write;
  - panels: `PanelTyping`, `ButtonsFollowCalls`, `LateAnswersAreDropped`. The last needs
    `OneEffect` for the panels without a secret: they have no cleanup that drops an
    answer, and need none, because only a reload starts their effect again and
    leaves no poll under way;
  - `OperationsAreSafe`: the parts share no state, so a behaviour of `Operations` is
    one of each (`PartsApart`), and all of these hold of it.

Sums and quotients of factorials need induction on numbers. The induction theorem
of the library takes an operator as a parameter, which no prover here can
instantiate; `NatInduct` in `OperationsProofs` states it of a set of numbers instead,
and follows from the library's theorem that a non-empty set of numbers has a
least member.

Only model-checked: liveness (`HoldsAreResolved`, `PublishedIsSettled`, `PollingEnds`,
`JobsAreTaken`, `ClaimEnds`, `ChaosEnds`, `FlagIsReleased`, `PanelsCatchUp`), which the
provers used here do not cover. Every other property of a passing run, each safety
invariant and each action property, is a theorem.

## 5. Where the code and its documents disagree

Three runs end in a counterexample, one for each of these claims; `PROJECT.json`
quotes them.

- `OneSoldSeatPerBooking`: two invocations of one booking sell it two seats. The
  booking names the first; the other seat is sold to nobody. By
  `SecondSaleNeedsOverlap` this takes two `confirm_booking` calls at once.
- `AcceptedIsDecided`: a booking whose hold was lost is answered EXPIRED and stays
  PENDING in the table, outside the DLQ.
- `NoDuplicateAllocation` (in `DemoReset`): reset is not transactional; when it
  ends after its first statement, confirmed seats are sold again. By
  `OnlyHalfAResetDuplicates` nothing else duplicates a sale.

TLC also refutes the following, which are stated in the modules and can be tried
by naming them as INVARIANT or PROPERTY in the configuration of their module
(those in leads-to form need the fair specification):

- `TerminalReplyIsKept` in `Reservation`: the ingress overwrites the worker's final
  response with its 202, and replays answer 202 PENDING from then on, although
  `app/api/book/route.ts:352-353` says "Cache the 202 body so replays return 202 +
  Idempotent-Replayed: true until the worker overwrites with the terminal 200
  CONFIRMED body";
- `CheckReturnsRow` in `Admission`: `idempotency_check` returns no row for a key that
  was committed after its snapshot, and the request fails with 500, although
  `20260417140000_fn_idempotency_check.sql:3` says "Always returns exactly one row";
- `OneHoldPerBooking`, `RejectedBookingSoldNothing` (a publish that failed
  ambiguously sells a seat to a booking told 502), `ConfirmedIsNotRefunded`,
  `ConfirmedReplyIsKept` (the failure callback, or an overlapping worker, caches
  FAILED for a booking that another attempt confirmed), `ChargeBuysSeatOrRefund`, in `Reservation`;
- `FenceAbsorbsReplay`, `ClaimedKeyIsAnswered` (a request that dies after its
  claim leaves a key that answers 409 or fails for good), in `Admission`;
- `AcceptedIsFollowed` in `BookPage`: a late answer of an earlier booking takes the
  page off the booking it is polling for;
- `WindowIsExact` in `AdminLimiter`: with scripts out of order a whole window may
  hold more than `limit` hits; `WindowBound` says by how much it is short;
- `RetryRunsOnce` in `DlqRetry`: `app/api/admin/dlq/[id]/retry/route.ts:2-3` says the
  route "sets deduplicationId so a double-click doesn't double-enqueue"; it sets
  none;
- `AllRepliesAreReal` in `DemoReset`, against "nuke demo state between runs"
  (`app/api/admin/reset/route.ts:1`): reset keeps keys older than an hour, and
  a key posted again after a reset is answered with what a stale invocation of the
  deleted booking wrote into its row;
- `ZeroRowsMeanNoSeat` in `LocalQueue`, against "0 rows if no seats available"
  (`20260417100000_fn_allocate_seat.sql:2`): the last seat may be locked by a call that
  is rolled back afterwards, and stays free;
- `LocalJobIsSettled` in `LocalQueue`: "This mirrors QStash Flow Control"
  (`infra/qstash/publisher.ts:21`), but a transient outcome is the end of a local job;
- `SingleFlight` in `Simulator`, against "Single-flight: prevent two simulators
  running at once" (`app/api/simulate/route.ts:94`): a run may outlive its claim, and a DEL that
  executed and threw is sent again by the catch;
- `OneExtraFault` in `ChaosGate`, against "Decrement or delete atomically"
  (`lib/chaos/worker-gate.ts:51`): the counter is read and written back in two calls;
- `CachedForTtlOnly` in `DepthGate`, against "We cache 5s": the delays of three calls
  come on top;
- `EveryHandlerFlushes` in `MetricsPush`, against "Called at the end of each Node-runtime
  handler" (`lib/metrics/pusher.ts:3`): the failure webhook counts and schedules none;
- `RemoteIsTotal` in `MetricsPush`, against "Counters are additive"
  (`lib/metrics/registry.ts:6`): instances overwrite each other's series;
- `SingleShot` in `LivePanels`, against "single-shot DB snapshot"
  (`app/api/admin/live-stats/route.ts:1`): four statements see four moments;
  `NeverGoesBack`: a panel goes back to an older reading when answers overtake.

Reading the code for these modules also showed what no state machine is needed
for: `tg_sim_requests_total` is no registered counter, so the simulator's count is
dropped; no code calls `record.gauge`, so the queue-depth and breaker series are
empty; the operations page says "system healthy" whatever its polls answer, and
"empty — system healthy" of a DLQ it could not read; clearing the secret keeps the
numbers on the screen and the secret in sessionStorage; `scripts/local-chaos.ts`
expects 30 admissions of an endpoint whose bucket holds 300.

What still holds in those cases is checked too: the booking with two seats has
one row and one seat in `bookings` (`SaleRefined`), and the booking that is never
decided has been refunded (`PublishedIsSettled`).

## 6. Not modelled

- Request and signature validation, wording, logs: they end a request before any
  state is touched, or carry none.
- The numbers of the ingress rate limiter and of the circuit breakers, which are
  libraries': their verdict is a free choice.
- That the Redis client repeats a command whose reply was lost is modelled where
  commands delete or overwrite (`Simulator`, `DepthGate`), and not for the limiter's
  EVAL, where a repeat is one more hit of a caller, nor for the SET and DEL of
  `ChaosGate`, where it would add to what `FaultsAreBounded` counts as lost writes.
- Metrics without Grafana's settings (no push is made), and `scheduleMetricsPush`
  outside a request, where it flushes at once.
- Reset together with the local queue: `DemoReset` is over the broker's engine.
- More than one train: trains share no rows, and in the local queue no chain.
- Histograms and gauges: the registry treats them as it treats counters, and no
  code sets a gauge.
- `GET /api/healthz` and `GET /api/trains`: queries that keep no state and that no page
  of this repository polls.
- What a page renders; the landing page, the UI kit, layouts and styles.
- Scripts and invariant checkers: they run against a deployment. The two
  invariants they query are `NoDuplicateAllocation` and `AcceptedIsDecided` here.

## 7. What is left

Every part that keeps state or runs concurrently is modelled. What could follow is
the page and the ingress in one module, so that a client's retry after a lost 202
is followed from the dialog to the seat.
