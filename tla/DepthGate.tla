------------------------------- MODULE DepthGate -------------------------------
(*****************************************************************************)
(* The queue-depth gate of POST /api/book: requests are refused while the    *)
(* broker has more than HIGH_WATER jobs waiting.  The depth is read at most  *)
(* every CACHE_TTL seconds and kept in Redis; the write is not waited for,   *)
(* may land late and may replace a newer reading.  Whatever fails, the       *)
(* request is admitted.                                                      *)
(*                                                                           *)
(* Time is a counter of seconds.  CALL bounds one call of a reading's way:   *)
(* the broker's answer to the request, the write to the cache, and the GET's *)
(* answer to a later request.                                                *)
(*****************************************************************************)
EXTENDS Naturals

CONSTANTS
  Requests,     \* requests at the gate at one time
  Depths,       \* depths the broker reports
  HIGH_WATER,   \* 2000 in the code
  CACHE_TTL,    \* CACHE_TTL_SECONDS, 5
  CALL,         \* seconds a call takes at most
  MaxTime,      \* bound: the clock stops here
  NoReading

ASSUME DepthAssumption ==
  /\ Depths \subseteq Nat
  /\ HIGH_WATER \in Nat /\ CACHE_TTL \in Nat \ {0} /\ CALL \in Nat /\ MaxTime \in Nat
  /\ NoReading \notin [depth : Nat, at : Nat, till : Nat]
  /\ NoReading \notin [depth : Nat, at : Nat, since : Nat, own : BOOLEAN]

VARIABLES
  clock,
  depth,      \* jobs that wait at the broker
  cache,      \* qdepth:<key>: a reading and the second it expires
  probe,      \* per request: the reading on its way to it, from broker or cache
  writes,     \* readings on their way to the cache
  verdict     \* the last answer given, and the age of what it rests on

gateVars == <<clock, depth, cache, probe, writes, verdict>>

\* at: when the broker had this depth; since: when the call was answered or sent
\* that carries it; own: the request asked the broker itself.
Reading == [depth : Depths, at : 0 .. MaxTime, since : 0 .. MaxTime, own : BOOLEAN]

GateTypeOK ==
  /\ clock \in 0 .. MaxTime
  /\ depth \in Depths
  /\ cache \in [depth : Depths, at : 0 .. MaxTime, till : 0 .. MaxTime + CACHE_TTL]
                 \cup {NoReading}
  /\ probe \in [Requests -> Reading \cup {NoReading}]
  /\ writes \subseteq Reading
  /\ verdict \in [overLimit : BOOLEAN, age : 0 .. MaxTime]

GateInit ==
  /\ clock = 0
  /\ depth \in Depths
  /\ cache = NoReading
  /\ probe = [r \in Requests |-> NoReading]
  /\ writes = {}
  /\ verdict = [overLimit |-> FALSE, age |-> 0]

Hit == cache # NoReading /\ clock < cache.till

Decide(d, at) == verdict' = [overLimit |-> d > HIGH_WATER, age |-> clock - at]

-----------------------------------------------------------------------------
CacheEntry == [depth |-> cache.depth, at |-> cache.at, since |-> clock, own |-> FALSE]

\* A hit extends the life of the entry.
BugReadCache(r) ==
  /\ Hit /\ probe[r] = NoReading
  /\ probe' = [probe EXCEPT ![r] = CacheEntry]
  /\ cache' = [cache EXCEPT !.till = clock + CACHE_TTL]
  /\ UNCHANGED <<clock, depth, writes, verdict>>

\* Redis executes the GET.
ReadCache(r) ==
  /\ Hit /\ probe[r] = NoReading
  /\ probe' = [probe EXCEPT ![r] = CacheEntry]
  /\ UNCHANGED <<clock, depth, cache, writes, verdict>>

\* The GET throws: the broker will be asked.
ReadThrows(r) ==
  /\ probe[r] # NoReading /\ ~probe[r].own
  /\ probe' = [probe EXCEPT ![r] = NoReading]
  /\ UNCHANGED <<clock, depth, cache, writes, verdict>>

\* No entry, or the GET has thrown: the broker reads its depth.
Probe(r) ==
  /\ probe[r] = NoReading
  /\ probe' = [probe EXCEPT ![r] =
       [depth |-> depth, at |-> clock, since |-> clock, own |-> TRUE]]
  /\ UNCHANGED <<clock, depth, cache, writes, verdict>>

\* The answer to the GET decides.
CacheAnswers(r) ==
  /\ probe[r] # NoReading /\ ~probe[r].own
  /\ Decide(probe[r].depth, probe[r].at)
  /\ probe' = [probe EXCEPT ![r] = NoReading]
  /\ UNCHANGED <<clock, depth, cache, writes>>

\* The broker's answer decides, and is sent to the cache without waiting.
ProbeAnswers(r) ==
  /\ probe[r] # NoReading /\ probe[r].own
  /\ Decide(probe[r].depth, probe[r].at)
  /\ writes' = writes \cup {[probe[r] EXCEPT !.since = clock]}
  /\ probe' = [probe EXCEPT ![r] = NoReading]
  /\ UNCHANGED <<clock, depth, cache>>

\* The broker cannot be asked, or its answer is lost: degraded, and admitted.
ProbeFails(r) ==
  /\ probe[r] # NoReading => probe[r].own
  /\ probe' = [probe EXCEPT ![r] = NoReading]
  /\ verdict' = [overLimit |-> FALSE, age |-> 0]
  /\ UNCHANGED <<clock, depth, cache, writes>>

\* SET ... EX CACHE_TTL; when the reply is lost the client library sends it again.
WriteLands(x) ==
  /\ cache' = [depth |-> x.depth, at |-> x.at, till |-> clock + CACHE_TTL]
  /\ writes' \in {writes, writes \ {x}}
  /\ UNCHANGED <<clock, depth, probe, verdict>>

WriteFails(x) ==
  /\ writes' = writes \ {x}
  /\ UNCHANGED <<clock, depth, cache, probe, verdict>>

DepthChanges ==
  /\ depth' \in Depths
  /\ UNCHANGED <<clock, cache, probe, writes, verdict>>

\* No call takes more than CALL seconds.
Tick ==
  /\ clock < MaxTime
  /\ \A x \in writes : clock < x.since + CALL
  /\ \A r \in Requests : probe[r] # NoReading => clock < probe[r].since + CALL
  /\ clock' = clock + 1
  /\ UNCHANGED <<depth, cache, probe, writes, verdict>>

GateNext ==
  \/ \E r \in Requests :
       ReadCache(r) \/ ReadThrows(r) \/ CacheAnswers(r)
         \/ Probe(r) \/ ProbeAnswers(r) \/ ProbeFails(r)
  \/ \E x \in writes : WriteLands(x) \/ WriteFails(x)
  \/ DepthChanges
  \/ Tick

GateSpec == GateInit /\ [][GateNext]_gateVars

-----------------------------------------------------------------------------
(* What must hold. *)

\* No request is refused, or let through, on a depth older than the cache's
\* lifetime and the three calls on its way there: the broker's answer, the write
\* that filled the cache and the GET that found it.  A burst passes on an old
\* reading, and a drained queue refuses on one, for that long and no longer.
VerdictsAreFresh == verdict.age < CACHE_TTL + 3 * CALL

\* "We cache 5s": the reading a verdict rests on is at most CACHE_TTL old.  The
\* delays of the calls come on top.
CachedForTtlOnly == verdict.age <= CACHE_TTL
=============================================================================
