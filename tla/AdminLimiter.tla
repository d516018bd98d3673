----------------------------- MODULE AdminLimiter -----------------------------
(***************************************************************************)
(* The sliding-window log behind the admin endpoints: one bucket of one    *)
(* token.  A caller that shows the secret takes a timestamp and sends one  *)
(* EVAL to Redis, which arrives up to MaxDelay later, so that scripts may  *)
(* run in another order than their timestamps.                             *)
(***************************************************************************)
EXTENDS Integers, FiniteSets

CONSTANTS
  Callers,        \* requests in flight at a time
  limit,          \* BUCKETS[kind].limit
  windowMs,       \* BUCKETS[kind].windowSeconds
  Second,         \* 1000 in the code: Retry-After is in whole seconds
  MaxDelay        \* how old a timestamp may be when its script runs

ASSUME LimiterAssumption ==
  /\ limit \in Nat \ {0}
  /\ windowMs \in Nat \ {0}
  /\ Second \in Nat \ {0}
  /\ MaxDelay \in Nat

VARIABLES
  now,            \* the clock of Redis and of the functions
  now_ms,         \* timestamp of a caller's script on its way, or None
  log,            \* the sorted set of the bucket
  ttl,            \* when the key expires
  hits,           \* every hit the bucket has admitted
  notBefore,      \* when a refused caller was told to come back, or None
  slotTaken       \* a hit was admitted since

limiterVars == <<now, now_ms, log, ttl, hits, notBefore, slotTaken>>

None == -1

\* Members are unique: two hits of one millisecond are two members.
Hit == [at : Nat, member : Nat]

LimiterTypeOK ==
  /\ now \in Nat
  /\ now_ms \in [Callers -> Nat \cup {None}]
  /\ log \subseteq hits
  /\ hits \subseteq Hit
  /\ ttl \in Nat
  /\ notBefore \in [Callers -> Nat \cup {None}]
  /\ slotTaken \in [Callers -> BOOLEAN]

LimiterInit ==
  /\ now = 0
  /\ now_ms = [c \in Callers |-> None]
  /\ log = {}
  /\ ttl = 0
  /\ hits = {}
  /\ notBefore = [c \in Callers |-> None]
  /\ slotTaken = [c \in Callers |-> FALSE]

\* The clock never waits: a timestamp may grow older than MaxDelay, and its
\* script then fails.
Tick ==
  /\ now' = now + 1
  /\ UNCHANGED <<now_ms, log, ttl, hits, notBefore, slotTaken>>

-----------------------------------------------------------------------------
(* requireAdmin, for a caller whose secret is right. *)

RequireAdmin(c) ==
  /\ now_ms[c] = None
  /\ now_ms' = [now_ms EXCEPT ![c] = now]
  /\ UNCHANGED <<now, log, ttl, hits, notBefore, slotTaken>>

\* A key past its TTL does not exist.
Stored == IF now < ttl THEN log ELSE {}

\* The window start itself is kept.
BugInWindow(t) == {h \in Stored : h.at >= t - windowMs}

\* ZREMRANGEBYSCORE key -inf window_start removes the window start as well.
InWindow(t) == {h \in Stored : h.at > t - windowMs}

\* The member is made from the time and a random number.
Member(t) == [at |-> t, member |-> Cardinality(hits)]

\* Off by one.
BugAdmit(c) ==
  LET t == now_ms[c] IN
  /\ now_ms[c] # None /\ now - t <= MaxDelay
  /\ Cardinality(InWindow(t)) <= limit
  /\ log' = InWindow(t) \cup {Member(t)}
  /\ hits' = hits \cup {Member(t)}
  /\ ttl' = now + 2 * windowMs
  /\ now_ms' = [now_ms EXCEPT ![c] = None]
  /\ notBefore' = [notBefore EXCEPT ![c] = None]
  /\ slotTaken' = [d \in Callers |-> d # c]
  /\ UNCHANGED now

Admit(c) ==
  LET t == now_ms[c] IN
  /\ now_ms[c] # None /\ now - t <= MaxDelay
  /\ Cardinality(InWindow(t)) < limit
  /\ log' = InWindow(t) \cup {Member(t)}
  /\ hits' = hits \cup {Member(t)}
  /\ ttl' = now + 2 * windowMs
  /\ now_ms' = [now_ms EXCEPT ![c] = None]
  /\ notBefore' = [notBefore EXCEPT ![c] = None]
  /\ slotTaken' = [d \in Callers |-> d # c]
  /\ UNCHANGED now

\* Math.floor for Math.ceil.
BugInSeconds(ms) == (ms \div Second) * Second

\* retryAfterSeconds, in milliseconds again.
InSeconds(ms) == ((ms + Second - 1) \div Second) * Second

Oldest(S) == CHOOSE at \in {h.at : h \in S} : \A h \in S : at <= h.at

\* The hit is recorded before it is counted.
BugRefuse(c) ==
  LET t == now_ms[c] IN
  /\ now_ms[c] # None /\ now - t <= MaxDelay
  /\ Cardinality(InWindow(t)) >= limit
  /\ log' = InWindow(t) \cup {Member(t)}
  /\ notBefore' = [notBefore EXCEPT ![c] = t + InSeconds(Oldest(InWindow(t)) + windowMs - t)]
  /\ slotTaken' = [slotTaken EXCEPT ![c] = FALSE]
  /\ now_ms' = [now_ms EXCEPT ![c] = None]
  /\ UNCHANGED <<now, ttl, hits>>

\* The caller reads its Retry-After against its own timestamp.
Refuse(c) ==
  LET t == now_ms[c] IN
  /\ now_ms[c] # None /\ now - t <= MaxDelay
  /\ Cardinality(InWindow(t)) >= limit
  /\ log' = InWindow(t)
  /\ notBefore' = [notBefore EXCEPT ![c] = t + InSeconds(Oldest(InWindow(t)) + windowMs - t)]
  /\ slotTaken' = [slotTaken EXCEPT ![c] = FALSE]
  /\ now_ms' = [now_ms EXCEPT ![c] = None]
  /\ UNCHANGED <<now, ttl, hits>>

\* Redis does not answer: the caller is let through and nothing is counted.
FailOpen(c) ==
  /\ now_ms[c] # None
  /\ now_ms' = [now_ms EXCEPT ![c] = None]
  /\ notBefore' = [notBefore EXCEPT ![c] = None]
  /\ UNCHANGED <<now, log, ttl, hits, slotTaken>>

LimiterNext ==
  \/ Tick
  \/ \E c \in Callers : RequireAdmin(c) \/ Admit(c) \/ Refuse(c) \/ FailOpen(c)

LimiterSpec == LimiterInit /\ [][LimiterNext]_limiterVars

-----------------------------------------------------------------------------
(* What must hold. *)

Window(from, length) == {h \in hits : from <= h.at /\ h.at < from + length}

\* The log is exact but for the time a script may be under way: no interval of
\* the window's length less that delay holds more than limit admitted hits,
\* although scripts evict by timestamps that are not in order and the key
\* expires as a whole.
WindowBound ==
  \A h \in hits : Cardinality(Window(h.at, windowMs - MaxDelay)) <= limit

\* Retry-After is enough: a caller that waited for as long as it was told is
\* refused again only if another hit took the slot meanwhile.
RetryAfterIsEnough ==
  [][\A c \in Callers :
       /\ notBefore[c] # None /\ ~slotTaken[c] /\ now_ms[c] >= notBefore[c]
       => ~Refuse(c)]_limiterVars

\* "100% accurate", "atomic, no races": not more than limit in any window.
WindowIsExact ==
  \A h \in hits : Cardinality(Window(h.at, windowMs)) <= limit
=============================================================================
