--------------------------- MODULE OperationsProofs ---------------------------
(***************************************************************************)
(* The parts around the sale, for any number of requests, invocations,     *)
(* instances and polls: what each promises, and that side by side they     *)
(* keep it.                                                                *)
(***************************************************************************)
EXTENDS Operations, FiniteSetTheorems, WellFoundedInduction, TLAPS

-----------------------------------------------------------------------------
(* The load simulator: runs that fire side by side are accounted for by runs
   that have outlived their claim and by DELs that were repeated. *)

\* A run claims once: what outlived its claim has claimed, and does not hold one;
\* only a run that fires no more has sent a DEL, and one that is done has.
ClaimedOnce ==
  /\ lock \notin overran
  /\ \A r \in overran : run[r] \notin {"new", "lost"}
  /\ \A r \in Runs : run[r] \in {"new", "lost", "claimed", "firing"} => dels[r] = 0
  /\ \A r \in Runs : run[r] = "done" => dels[r] > 0
  /\ IsFiniteSet(Owing) /\ IsFiniteSet(overran) /\ IsFiniteSet(Repeats)

\* Runs that can still delete a claim, or keep it from others, without holding one:
\* each has lost its own.
DebtsAreCounted ==
  Cardinality(Owing \ {lock}) <= Cardinality(overran) + Cardinality(Repeats)

SimInv == SimTypeOK /\ ClaimedOnce /\ DebtsAreCounted

LEMMA SimInitInv == SimInit => SimInv
<1> SUFFICES ASSUME SimInit PROVE SimInv
  OBVIOUS
<1>1. Owing = {} /\ overran = {} /\ Repeats = {}
  BY DEF SimInit, Owing, Repeats
<1>2. Owing \ {lock} = {}
  BY <1>1
<1>3. SimTypeOK
  BY SimAssumption DEF SimInit, SimTypeOK, RunStates
<1> QED
  BY <1>1, <1>2, <1>3, FS_EmptySet DEF SimInit, SimInv, ClaimedOnce, DebtsAreCounted

\* No handler takes a variable out of its type: no batch runs past RequestCount.
LEMMA SimTypeStep == SimTypeOK /\ [SimNext]_simVars => SimTypeOK'
<1> SUFFICES ASSUME SimTypeOK, [SimNext]_simVars PROVE SimTypeOK'
  OBVIOUS
<1> USE DEF SimTypeOK, RunStates, Goes
<1>1. ASSUME NEW r \in Runs, FireChunk(r) PROVE SimTypeOK'
  <2>1. fired[r] + Batch(r) \in 0 .. RequestCount
    BY <1>1, SimAssumption DEF FireChunk, Batch
  <2> QED
    BY <1>1, <2>1 DEF FireChunk
<1>2. ASSUME NEW r \in Runs, Claim(r) \/ Busy(r) \/ ClaimThrows(r) \/ ClaimLands(r)
      PROVE  SimTypeOK'
  BY <1>2 DEF Claim, Busy, ClaimThrows, ClaimLands
<1>3. ASSUME NEW r \in Runs,
             Start(r) \/ Finish(r) \/ Ends(r) \/ FireAllThrows(r) \/ CatchEnds(r) \/ Dies(r)
      PROVE  SimTypeOK'
  BY <1>3 DEF Start, Finish, Ends, FireAllThrows, CatchEnds, Dies
<1>4. ASSUME NEW r \in Runs, DelLands(r) PROVE SimTypeOK'
  <2>1. dels[r] + 1 \in 0 .. MaxDels
    BY <1>4, SimAssumption DEF DelLands
  <2> QED
    BY <1>4, <2>1 DEF DelLands
<1>5. CASE LockExpires
  BY <1>5 DEF LockExpires, Owing
<1>6. CASE UNCHANGED simVars
  BY <1>6 DEF simVars
<1> QED
  BY <1>1, <1>2, <1>3, <1>4, <1>5, <1>6 DEF SimNext, RunNext

\* What the two sides of the count are.
LEMMA SimCounts ==
  ASSUME ClaimedOnce
  PROVE  /\ IsFiniteSet(Owing \ {lock})
         /\ Cardinality(Owing) \in Nat /\ Cardinality(Owing \ {lock}) \in Nat
         /\ Cardinality(overran) \in Nat /\ Cardinality(Repeats) \in Nat
         /\ Cardinality(Owing) <= Cardinality(Owing \ {lock}) + 1
<1>1. IsFiniteSet(Owing \ {lock}) /\ Cardinality(Owing) \in Nat
  BY FS_Subset, FS_CardinalityType DEF ClaimedOnce
<1>2. Cardinality(Owing \ {lock}) \in Nat
  BY <1>1, FS_CardinalityType
<1>3. Cardinality(overran) \in Nat /\ Cardinality(Repeats) \in Nat
  BY FS_CardinalityType DEF ClaimedOnce
<1>4. Cardinality(Owing) <= Cardinality(Owing \ {lock}) + 1
  <2>1. CASE lock \in Owing
    <3>1. Cardinality(Owing \ {lock}) = Cardinality(Owing) - 1
      BY <2>1, FS_RemoveElement DEF ClaimedOnce
    <3> QED
      BY <1>1, <1>2, <3>1
  <2>2. CASE lock \notin Owing
    <3>1. Owing \ {lock} = Owing
      BY <2>2
    <3> QED
      BY <1>1, <3>1
  <2> QED
    BY <2>1, <2>2
<1> QED
  BY <1>1, <1>2, <1>3, <1>4

\* A finite part can lose elements and keeps the count.
LEMMA FewerDebts ==
  ASSUME ClaimedOnce, DebtsAreCounted,
         (Owing \ {lock})' \subseteq Owing \ {lock}, UNCHANGED <<overran, dels>>
  PROVE  DebtsAreCounted'
<1>1. Cardinality((Owing \ {lock})') <= Cardinality(Owing \ {lock})
  BY SimCounts, FS_Subset
<1>2. Cardinality((Owing \ {lock})') \in Nat
  BY SimCounts, FS_Subset, FS_CardinalityType
<1>3. Repeats' = Repeats
  BY DEF Repeats
<1> QED
  BY <1>1, <1>2, <1>3, SimCounts DEF DebtsAreCounted

\* A request that claims, or is refused.
LEMMA ClaimKeeps ==
  ASSUME SimInv, NEW r \in Runs, Claim(r) \/ Busy(r) \/ ClaimThrows(r) \/ ClaimLands(r)
  PROVE  (ClaimedOnce /\ DebtsAreCounted)'
<1> USE DEF SimInv
<1>1. /\ UNCHANGED <<dels, overran>> /\ dels[r] = 0 /\ r \notin Owing /\ r \notin overran
      /\ lock' = lock \/ lock' = r
      /\ \A q \in Runs : q # r => run'[q] = run[q]
      /\ run'[r] \in {"claimed", "busy", "lost", "dead"}
      /\ run'[r] = "claimed" => lock' = r
      /\ run'[r] = "lost" => lock' = lock /\ run[r] = "new"
      /\ lock' = r => lock = NoRun \/ lock = r
  BY DEF Claim, Busy, ClaimThrows, ClaimLands, Goes, Owing, SimTypeOK, ClaimedOnce
<1>2. Owing' \ {r} = Owing
  BY <1>1 DEF Owing, SimTypeOK
<1>3. (Owing \ {lock})' \subseteq Owing \ {lock}
  BY <1>1, <1>2, SimAssumption DEF Owing, SimTypeOK
<1>4. IsFiniteSet(Owing')
  <2>1. Owing' \subseteq Owing \cup {r}
    BY <1>2
  <2> QED
    BY <2>1, FS_AddElement, FS_Subset DEF ClaimedOnce
<1>5. Repeats' = Repeats
  BY <1>1 DEF Repeats
<1>6. ClaimedOnce'
  BY <1>1, <1>4, <1>5 DEF ClaimedOnce, SimTypeOK
<1> QED
  BY <1>1, <1>3, <1>6, FewerDebts

\* A run that goes on, or ends without a DEL.
LEMMA RunKeeps ==
  ASSUME SimInv, NEW r \in Runs,
         \/ Start(r) \/ FireChunk(r) \/ Finish(r) \/ Ends(r)
         \/ FireAllThrows(r) \/ CatchEnds(r) \/ Dies(r)
  PROVE  (ClaimedOnce /\ DebtsAreCounted)'
<1> USE DEF SimInv
<1>1. /\ UNCHANGED <<lock, dels, overran>>
      /\ \A q \in Runs : q # r => run'[q] = run[q]
      /\ run'[r] \notin {"new", "lost"}
      /\ run'[r] \in {"claimed", "firing"} => run[r] \in {"claimed", "firing"}
      /\ run'[r] = "done" => dels[r] > 0
      /\ r \in Owing' => r \in Owing
  BY DEF Start, FireChunk, Finish, Ends, FireAllThrows, CatchEnds, Dies, Goes, Active, Owing,
         SimTypeOK
<1>2. Owing' \subseteq Owing
  BY <1>1 DEF Owing
<1>3. IsFiniteSet(Owing') /\ Repeats' = Repeats
  BY <1>1, <1>2, FS_Subset DEF ClaimedOnce, Repeats
<1>4. ClaimedOnce'
  BY <1>1, <1>3 DEF ClaimedOnce, SimTypeOK
<1> QED
  BY <1>1, <1>2, <1>4, FewerDebts

\* The first DEL of a run frees a claim, its own or another's: for the one that
\* loses its claim there is the one that has nothing to delete any more.
LEMMA FirstDel ==
  ASSUME SimInv, NEW r \in Owing, DelLands(r)
  PROVE  (ClaimedOnce /\ DebtsAreCounted)'
<1> USE DEF SimInv
<1>1. /\ r \in Runs /\ dels[r] = 0 /\ UNCHANGED <<run, overran>> /\ lock' = NoRun
      /\ dels' = [dels EXCEPT ![r] = 1]
      /\ run[r] \in {"ending", "caught", "done", "failed"}
  BY DEF DelLands, Owing, SimTypeOK
<1>2. Owing' = Owing \ {r} /\ NoRun \notin Owing
  BY <1>1, SimAssumption DEF Owing, SimTypeOK
<1>3. Repeats' = Repeats
  BY <1>1, SimAssumption DEF Repeats, SimTypeOK
<1>4. ClaimedOnce'
  BY <1>1, <1>2, <1>3, FS_RemoveElement, SimAssumption DEF ClaimedOnce, SimTypeOK
<1>5. (Owing \ {lock})' = Owing \ {r}
  BY <1>1, <1>2
<1>6. Cardinality(Owing \ {r}) = Cardinality(Owing) - 1
  BY FS_RemoveElement DEF ClaimedOnce
<1>7. Cardinality(Owing \ {r}) <= Cardinality(overran) + Cardinality(Repeats)
  BY <1>6, SimCounts DEF DebtsAreCounted
<1>8. DebtsAreCounted'
  BY <1>1, <1>3, <1>5, <1>7 DEF DebtsAreCounted
<1> QED
  BY <1>4, <1>8

\* Another one is paid for by being a repeat.
LEMMA NextDel ==
  ASSUME SimInv, NEW r \in Runs, r \notin Owing, DelLands(r)
  PROVE  (ClaimedOnce /\ DebtsAreCounted)'
<1> USE DEF SimInv
<1>1. /\ dels[r] \in Nat /\ dels[r] < MaxDels
      /\ UNCHANGED <<run, overran>> /\ lock' = NoRun
      /\ dels' = [dels EXCEPT ![r] = dels[r] + 1]
      /\ run[r] \in {"ending", "caught", "done", "failed"}
  BY DEF DelLands, SimTypeOK
<1>2. Owing' = Owing /\ NoRun \notin Owing
  BY <1>1, SimAssumption DEF Owing, SimTypeOK
<1>3. dels[r] # 0
  BY <1>1 DEF Owing, ClaimedOnce
<1>4. Repeats' = Repeats \cup {<<r, dels[r] + 1>>} /\ <<r, dels[r] + 1>> \notin Repeats
  BY <1>1, <1>3, SimAssumption DEF Repeats, SimTypeOK
<1>5. /\ IsFiniteSet(Repeats')
      /\ Cardinality(Repeats') = Cardinality(Repeats) + 1
  BY <1>4, FS_AddElement DEF ClaimedOnce
<1>6. ClaimedOnce'
  BY <1>1, <1>2, <1>5, SimAssumption DEF ClaimedOnce, SimTypeOK
<1>7. (Owing \ {lock})' = Owing
  BY <1>1, <1>2
<1> QED
  BY <1>1, <1>5, <1>6, <1>7, SimCounts DEF DebtsAreCounted

\* The TTL takes a claim: that of a run that has not ended is counted.
LEMMA ExpiryKeeps ==
  ASSUME SimInv, LockExpires
  PROVE  (ClaimedOnce /\ DebtsAreCounted)'
<1> USE DEF SimInv
<1>1. /\ lock # NoRun /\ lock' = NoRun /\ UNCHANGED <<run, dels>>
      /\ overran' = overran \cup ({lock} \cap Owing)
      /\ lock \in Runs /\ lock \notin overran
  BY DEF LockExpires, SimTypeOK, ClaimedOnce
<1>2. Owing' = Owing /\ NoRun \notin Owing /\ Repeats' = Repeats
  BY <1>1, SimAssumption DEF Owing, Repeats
<1>3. (Owing \ {lock})' = Owing
  BY <1>1, <1>2
<1>4. CASE lock \in Owing
  <2>1. overran' = overran \cup {lock} /\ lock \notin overran
    BY <1>1, <1>4
  <2>2. IsFiniteSet(overran') /\ Cardinality(overran') = Cardinality(overran) + 1
    BY <2>1, FS_AddElement DEF ClaimedOnce
  <2>3. ClaimedOnce'
    BY <1>1, <1>2, <1>4, <2>1, <2>2, SimAssumption DEF ClaimedOnce, SimTypeOK, Owing
  <2> QED
    BY <1>2, <1>3, <2>2, <2>3, SimCounts DEF DebtsAreCounted
<1>5. CASE lock \notin Owing
  <2>1. overran' = overran /\ Owing \ {lock} = Owing
    BY <1>1, <1>5
  <2>2. ClaimedOnce'
    BY <1>1, <1>2, <2>1, SimAssumption DEF ClaimedOnce, SimTypeOK
  <2> QED
    BY <1>1, <1>2, <1>3, <2>1, <2>2 DEF DebtsAreCounted
<1> QED
  BY <1>4, <1>5

LEMMA SimStep == SimInv /\ [SimNext]_simVars => SimInv'
<1> SUFFICES ASSUME SimInv, [SimNext]_simVars PROVE (ClaimedOnce /\ DebtsAreCounted)'
  BY SimTypeStep DEF SimInv
<1>1. ASSUME UNCHANGED simVars PROVE (ClaimedOnce /\ DebtsAreCounted)'
  BY <1>1 DEF SimInv, simVars, ClaimedOnce, DebtsAreCounted, Owing, Repeats
<1>2. ASSUME NEW r \in Runs, RunNext(r) PROVE (ClaimedOnce /\ DebtsAreCounted)'
  BY <1>2, ClaimKeeps, RunKeeps, FirstDel, NextDel DEF RunNext
<1> QED
  BY <1>1, <1>2, ExpiryKeeps DEF SimNext

\* Runs that fire are among those that owe a DEL.
LEMMA FiringOwes ==
  ASSUME SimInv
  PROVE  /\ Active \ {lock} \in SUBSET (Owing \ {lock})
         /\ IsFiniteSet(Active \ {lock})
         /\ RunsAreCounted
<1> USE DEF SimInv
<1>1. Active \ {lock} \in SUBSET (Owing \ {lock})
  BY DEF Active, Owing, ClaimedOnce
<1>2. /\ IsFiniteSet(Active \ {lock})
      /\ Cardinality(Active \ {lock}) <= Cardinality(Owing \ {lock})
  BY <1>1, SimCounts, FS_Subset
<1>3. Cardinality(Active \ {lock}) \in Nat
  BY <1>2, FS_CardinalityType
<1> QED
  BY <1>1, <1>2, <1>3, SimCounts DEF RunsAreCounted, DebtsAreCounted

\* POST /api/simulate: whatever dies, throws, overruns or is sent twice, more than
\* one run fires only as often as a run has outlived its claim or a DEL has been
\* repeated.
THEOREM ConcurrentRunsAreCounted == SimSpec => []RunsAreCounted
BY SimInitInv, SimStep, FiringOwes, PTL DEF SimSpec

\* "Single-flight" as far as it goes: while no run has outlived its claim and every
\* run has sent one DEL at most, at most one fires.
THEOREM SingleFlightUntilOverrun ==
  SimSpec => [](overran = {} /\ Repeats = {} => SingleFlight)
<1>1. ASSUME SimInv, overran = {}, Repeats = {} PROVE SingleFlight
  <2>1. Cardinality(Active \ {lock}) = 0
    BY <1>1, FiringOwes, FS_EmptySet, FS_CardinalityType DEF RunsAreCounted
  <2>2. Active \ {lock} = {}
    BY <1>1, <2>1, FiringOwes, FS_EmptySet
  <2>3. Active \in SUBSET {lock}
    BY <2>2
  <2>4. Cardinality(Active) <= Cardinality({lock}) /\ Cardinality({lock}) = 1
    BY <2>3, FS_Singleton, FS_Subset
  <2> QED
    BY <2>4 DEF SingleFlight
<1>2. SimInv => (overran = {} /\ Repeats = {} => SingleFlight)
  BY <1>1
<1> QED
  BY SimInitInv, SimStep, <1>2, PTL DEF SimSpec

\* Every variable keeps its type: no run fires more than it was asked for.
THEOREM SimTyped == SimSpec => []SimTypeOK
<1>1. SimInv => SimTypeOK
  BY DEF SimInv
<1> QED
  BY SimInitInv, SimStep, <1>1, PTL DEF SimSpec

-----------------------------------------------------------------------------
(* The queue-depth gate, for any lifetime of the cache and any delay of its calls. *)

\* The call that carries a reading takes no more than CALL.
UnderWay(x) == x.at <= x.since /\ x.since <= clock /\ clock <= x.since + CALL

\* What the calls before it have added to the age of a reading: nothing when the
\* broker has just answered, one call when it is written, and its time in the cache
\* when it has been found there.
Carried(x) ==
  IF x.own THEN x.since = x.at ELSE x.since < x.at + CACHE_TTL + 2 * CALL

ReadingsAreDated ==
  /\ \A x \in writes : UnderWay(x) /\ x.since <= x.at + CALL
  /\ \A r \in Requests : probe[r] # NoReading => UnderWay(probe[r]) /\ Carried(probe[r])
  /\ cache # NoReading => cache.at <= clock /\ cache.till <= cache.at + 2 * CALL + CACHE_TTL

GateInv == GateTypeOK /\ ReadingsAreDated /\ VerdictsAreFresh

LEMMA GateInitInv == GateInit => GateInv
BY DepthAssumption DEF GateInit, GateInv, GateTypeOK, ReadingsAreDated, VerdictsAreFresh

\* A verdict on a reading no older than the bound keeps type and freshness.
LEMMA FreshDecision ==
  ASSUME GateTypeOK, NEW d \in Depths, NEW t \in 0 .. MaxTime, t <= clock,
         clock - t < CACHE_TTL + 3 * CALL, Decide(d, t)
  PROVE  verdict' \in [overLimit : BOOLEAN, age : 0 .. MaxTime] /\ VerdictsAreFresh'
<1>1. (d > HIGH_WATER) \in BOOLEAN
  BY DepthAssumption
<1>2. clock - t \in 0 .. MaxTime
  BY DepthAssumption DEF GateTypeOK
<1> QED
  BY <1>1, <1>2 DEF Decide, VerdictsAreFresh

\* The answer to a request, from the broker or from the cache, is such a verdict.
LEMMA FreshAnswer ==
  ASSUME GateInv, NEW r \in Requests, probe[r] # NoReading,
         Decide(probe[r].depth, probe[r].at)
  PROVE  verdict' \in [overLimit : BOOLEAN, age : 0 .. MaxTime] /\ VerdictsAreFresh'
<1>1. GateTypeOK /\ probe[r] \in Reading /\ UnderWay(probe[r]) /\ Carried(probe[r])
  BY DEF GateInv, GateTypeOK, ReadingsAreDated
<1>2. clock \in 0 .. MaxTime /\ probe[r].at \in 0 .. MaxTime /\ probe[r].since \in 0 .. MaxTime
  BY <1>1 DEF GateTypeOK, Reading
<1>3. clock - probe[r].at < CACHE_TTL + 3 * CALL /\ probe[r].at <= clock
  BY <1>1, <1>2, DepthAssumption DEF UnderWay, Carried
<1> QED
  BY <1>1, <1>2, <1>3, FreshDecision DEF Reading

\* A reading that sets out, and one that is given up, keep type and dates.
LEMMA NewReading ==
  ASSUME GateInv, NEW r \in Requests, NEW x \in Reading, UnderWay(x), Carried(x),
         probe' = [probe EXCEPT ![r] = x], UNCHANGED <<clock, depth, cache, writes, verdict>>
  PROVE  GateInv'
<1>1. GateTypeOK'
  BY DEF GateInv, GateTypeOK
<1>2. ReadingsAreDated'
  BY DEF GateInv, GateTypeOK, ReadingsAreDated, UnderWay, Carried
<1> QED
  BY <1>1, <1>2 DEF GateInv, VerdictsAreFresh

LEMMA ReadingGone ==
  ASSUME GateInv, NEW r \in Requests, probe' = [probe EXCEPT ![r] = NoReading],
         verdict' \in [overLimit : BOOLEAN, age : 0 .. MaxTime], VerdictsAreFresh',
         UNCHANGED <<clock, depth, cache, writes>>
  PROVE  GateInv'
<1>1. GateTypeOK'
  BY DEF GateInv, GateTypeOK
<1>2. ReadingsAreDated'
  BY DEF GateInv, GateTypeOK, ReadingsAreDated, UnderWay, Carried
<1> QED
  BY <1>1, <1>2 DEF GateInv

LEMMA GateStep == GateInv /\ [GateNext]_gateVars => GateInv'
<1> SUFFICES ASSUME GateInv, [GateNext]_gateVars PROVE GateInv'
  OBVIOUS
<1>0. GateTypeOK /\ ReadingsAreDated /\ VerdictsAreFresh
  BY DEF GateInv
<1>1. ASSUME NEW r \in Requests, ReadCache(r) PROVE GateInv'
  <2>1. /\ cache \in [depth : Depths, at : 0 .. MaxTime, till : 0 .. MaxTime + CACHE_TTL]
        /\ cache.at <= clock /\ clock < cache.till
        /\ cache.till <= cache.at + 2 * CALL + CACHE_TTL
    BY <1>0, <1>1 DEF ReadCache, Hit, GateTypeOK, ReadingsAreDated
  <2>2. CacheEntry \in Reading
    BY <1>0, <2>1 DEF CacheEntry, Reading, GateTypeOK
  <2>3. UnderWay(CacheEntry) /\ Carried(CacheEntry)
    BY <1>0, <2>1, DepthAssumption DEF CacheEntry, UnderWay, Carried, GateTypeOK
  <2> QED
    BY <1>1, <2>2, <2>3, NewReading DEF ReadCache
<1>2. ASSUME NEW r \in Requests, Probe(r) PROVE GateInv'
  <2> DEFINE x == [depth |-> depth, at |-> clock, since |-> clock, own |-> TRUE]
  <2>1. x \in Reading /\ UnderWay(x) /\ Carried(x)
    BY <1>0, DepthAssumption DEF GateTypeOK, Reading, UnderWay, Carried
  <2>2. probe' = [probe EXCEPT ![r] = x] /\ UNCHANGED <<clock, depth, cache, writes, verdict>>
    BY <1>2 DEF Probe
  <2> HIDE DEF x
  <2> QED
    BY <2>1, <2>2, NewReading
<1>3. ASSUME NEW r \in Requests, ReadThrows(r) \/ CacheAnswers(r) \/ ProbeFails(r)
      PROVE  GateInv'
  <2>1. VerdictsAreFresh' /\ verdict' \in [overLimit : BOOLEAN, age : 0 .. MaxTime]
    <3>1. CASE ReadThrows(r)
      BY <1>0, <3>1 DEF ReadThrows, GateTypeOK, VerdictsAreFresh
    <3>2. CASE CacheAnswers(r)
      BY <3>2, FreshAnswer DEF CacheAnswers
    <3>3. CASE ProbeFails(r)
      BY <3>3, DepthAssumption DEF ProbeFails, VerdictsAreFresh
    <3> QED
      BY <1>3, <3>1, <3>2, <3>3
  <2> QED
    BY <1>3, <2>1, ReadingGone DEF ReadThrows, CacheAnswers, ProbeFails
<1>4. ASSUME NEW r \in Requests, ProbeAnswers(r) PROVE GateInv'
  <2>1. verdict' \in [overLimit : BOOLEAN, age : 0 .. MaxTime] /\ VerdictsAreFresh'
    BY <1>4, FreshAnswer DEF ProbeAnswers
  <2> DEFINE x == [probe[r] EXCEPT !.since = clock]
  <2>2. probe[r] \in Reading /\ UnderWay(probe[r]) /\ Carried(probe[r]) /\ probe[r].own
    BY <1>0, <1>4 DEF ProbeAnswers, GateTypeOK, ReadingsAreDated
  <2>3. x \in Reading /\ x.at <= x.since /\ x.since = clock /\ x.since <= x.at + CALL
    BY <1>0, <2>2, DepthAssumption DEF Reading, UnderWay, Carried, GateTypeOK
  <2>4. /\ probe' = [probe EXCEPT ![r] = NoReading] /\ writes' = writes \cup {x}
        /\ UNCHANGED <<clock, depth, cache>>
    BY <1>4 DEF ProbeAnswers
  <2> HIDE DEF x
  <2>5. GateTypeOK'
    BY <1>0, <2>1, <2>3, <2>4 DEF GateTypeOK
  <2>6. UnderWay(x)
    BY <1>0, <2>3, DepthAssumption DEF UnderWay, GateTypeOK
  <2>7. ReadingsAreDated'
    BY <1>0, <2>3, <2>4, <2>6 DEF GateTypeOK, ReadingsAreDated, UnderWay, Carried
  <2> QED
    BY <2>1, <2>5, <2>7 DEF GateInv
<1>5. ASSUME NEW x \in writes, WriteLands(x) \/ WriteFails(x) PROVE GateInv'
  <2>1. x \in Reading /\ UnderWay(x) /\ x.since <= x.at + CALL
    BY <1>0 DEF GateTypeOK, ReadingsAreDated
  <2>2. CASE WriteLands(x)
    <3>1. cache' \in [depth : Depths, at : 0 .. MaxTime, till : 0 .. MaxTime + CACHE_TTL]
      BY <1>0, <2>1, <2>2, DepthAssumption DEF WriteLands, GateTypeOK, Reading
    <3>2. GateTypeOK'
      BY <1>0, <2>2, <3>1 DEF WriteLands, GateTypeOK
    <3>3. cache'.at <= clock /\ cache'.till <= cache'.at + 2 * CALL + CACHE_TTL
      BY <1>0, <2>1, <2>2, DepthAssumption DEF WriteLands, GateTypeOK, Reading, UnderWay
    <3>4. ReadingsAreDated'
      BY <1>0, <2>2, <3>3 DEF WriteLands, GateTypeOK, ReadingsAreDated, UnderWay, Carried
    <3> QED
      BY <1>0, <2>2, <3>2, <3>4 DEF WriteLands, GateInv, VerdictsAreFresh
  <2>3. CASE WriteFails(x)
    BY <1>0, <2>3
    DEF WriteFails, GateInv, GateTypeOK, ReadingsAreDated, UnderWay, Carried, VerdictsAreFresh
  <2> QED
    BY <1>5, <2>2, <2>3
<1>6. CASE DepthChanges
  BY <1>0, <1>6
  DEF DepthChanges, GateInv, GateTypeOK, ReadingsAreDated, UnderWay, Carried, VerdictsAreFresh
<1>7. CASE Tick
  <2>1. GateTypeOK'
    BY <1>0, <1>7, DepthAssumption DEF Tick, GateTypeOK
  <2>2. \A x \in writes : UnderWay(x)' /\ x.since <= x.at + CALL
    <3> TAKE x \in writes
    <3>1. x \in Reading /\ UnderWay(x) /\ clock < x.since + CALL /\ x.since <= x.at + CALL
      BY <1>0, <1>7 DEF Tick, GateTypeOK, ReadingsAreDated
    <3> QED
      BY <1>0, <1>7, <3>1, DepthAssumption DEF Tick, GateTypeOK, Reading, UnderWay
  <2>3. ASSUME NEW r \in Requests, probe[r] # NoReading
        PROVE  UnderWay(probe[r])' /\ Carried(probe[r])'
    <3>1. /\ probe[r] \in Reading /\ UnderWay(probe[r]) /\ Carried(probe[r])
          /\ clock < probe[r].since + CALL
      BY <1>0, <1>7, <2>3 DEF Tick, GateTypeOK, ReadingsAreDated
    <3> QED
      BY <1>0, <1>7, <3>1, DepthAssumption DEF Tick, GateTypeOK, Reading, UnderWay, Carried
  <2>4. cache # NoReading => cache.at <= clock'
    BY <1>0, <1>7 DEF Tick, GateTypeOK, ReadingsAreDated
  <2>5. ReadingsAreDated'
    BY <1>0, <1>7, <2>2, <2>3, <2>4 DEF Tick, ReadingsAreDated
  <2> QED
    BY <1>0, <1>7, <2>1, <2>5 DEF Tick, GateInv, VerdictsAreFresh
<1>8. CASE UNCHANGED gateVars
  BY <1>0, <1>8
  DEF gateVars, GateInv, GateTypeOK, ReadingsAreDated, UnderWay, Carried, VerdictsAreFresh
<1> QED
  BY <1>1, <1>2, <1>3, <1>4, <1>5, <1>6, <1>7, <1>8 DEF GateNext

\* checkQueueDepth: no verdict rests on a depth that is CACHE_TTL and three calls old,
\* however requests, probes, late writes and late answers of the cache interleave.
THEOREM GateIsFresh == GateSpec => []VerdictsAreFresh
<1>1. GateInv => VerdictsAreFresh
  BY DEF GateInv
<1> QED
  BY GateInitInv, GateStep, <1>1, PTL DEF GateSpec

-----------------------------------------------------------------------------
(* The metrics pusher: pushes of one instance do not overlap, and at rest nothing
   counted is left unreported unless a flush was skipped or failed, or a call that
   schedules none has counted. *)

\* The flush follows the handler: where one is scheduled it is due while the handler
\* runs, and begins when the response is sent.
FlushFollowsHandler ==
  \A c \in Calls : /\ handler[c] = "new" <=> flush[c] = "none"
                   /\ handler[c] = "running" => flush[c] \in {"due", "over"}

\* Something will report, or has failed or omitted to report, what instance i counts
\* late.
Covered(i) ==
  missed[i] \/ unflushed[i] \/ \E d \in Calls : at[d] = i /\ flush[d] = "due"

\* What a push carries, and what the store took, is all there is, or covered.
ReportsAreCovered ==
  /\ \A c \in Calls : flush[c] = "push" => taken[c] = count[at[c]] \/ Covered(at[c])
  /\ \A i \in Instances : ~pushing[i] => accepted[i] = count[i] \/ Covered(i)

PushInv == PushTypeOK /\ FlushFollowsHandler /\ FlagMeansPush /\ ReportsAreCovered

LEMMA PushInitInv == PushInit => PushInv
<1> SUFFICES ASSUME PushInit PROVE PushInv
  OBVIOUS
<1>1. PushTypeOK
  BY PushAssumption DEF PushInit, PushTypeOK, Flushes
<1>2. FlushFollowsHandler /\ FlagMeansPush
  BY DEF PushInit, FlushFollowsHandler, FlagMeansPush, Pushing
<1>3. ReportsAreCovered
  BY DEF PushInit, ReportsAreCovered
<1> QED
  BY <1>1, <1>2, <1>3 DEF PushInv

LEMMA PushTypeStep == PushTypeOK /\ [PushNext]_pushVars => PushTypeOK'
<1> SUFFICES ASSUME PushTypeOK, [PushNext]_pushVars PROVE PushTypeOK'
  OBVIOUS
<1> USE DEF PushTypeOK, Flushes
<1>1. ASSUME NEW c \in Calls, Count(c) PROVE PushTypeOK'
  <2>1. at[c] \in Instances /\ count[at[c]] + 1 \in 0 .. MaxCount
    BY <1>1, PushAssumption DEF Count
  <2> QED
    BY <1>1, <2>1 DEF Count
<1>2. ASSUME NEW c \in Calls, Begin(c) \/ BeginSilent(c) \/ Respond(c) PROVE PushTypeOK'
  BY <1>2 DEF Begin, BeginSilent, Respond
<1>3. ASSUME NEW c \in Calls, SkipFlush(c) \/ StartFlush(c) PROVE PushTypeOK'
  BY <1>3 DEF SkipFlush, StartFlush, Flush
<1>4. ASSUME NEW c \in Calls, Snapshot(c) \/ PushAccepted(c) \/ PushFails(c)
      PROVE  PushTypeOK'
  <2>1. at[c] \in Instances /\ count[at[c]] \in 0 .. MaxCount /\ taken[c] \in 0 .. MaxCount
    OBVIOUS
  <2>2. CASE Snapshot(c)
    BY <2>1, <2>2 DEF Snapshot, Flush
  <2>3. CASE PushAccepted(c)
    BY <2>1, <2>3 DEF PushAccepted, Flush
  <2>4. CASE PushFails(c)
    <3>1. remote' \in 0 .. MaxCount
      BY <2>1, <2>4 DEF PushFails
    <3> QED
      BY <2>4, <3>1 DEF PushFails, Flush
  <2> QED
    BY <1>4, <2>2, <2>3, <2>4
<1>5. ASSUME NEW i \in Instances, Recycle(i) PROVE PushTypeOK'
  BY <1>5, PushAssumption DEF Recycle
<1>6. CASE UNCHANGED pushVars
  BY <1>6 DEF pushVars
<1> QED
  BY <1>1, <1>2, <1>3, <1>4, <1>5, <1>6 DEF PushNext, CallNext

LEMMA FollowStep ==
  PushTypeOK /\ FlushFollowsHandler /\ [PushNext]_pushVars => FlushFollowsHandler'
<1> SUFFICES ASSUME PushTypeOK, FlushFollowsHandler, [PushNext]_pushVars
             PROVE  FlushFollowsHandler'
  OBVIOUS
<1> USE DEF PushTypeOK, FlushFollowsHandler
<1>1. ASSUME NEW c \in Calls, Begin(c) \/ BeginSilent(c) \/ Count(c) \/ Respond(c)
      PROVE  FlushFollowsHandler'
  BY <1>1 DEF Begin, BeginSilent, Count, Respond
<1>2. ASSUME NEW c \in Calls,
             SkipFlush(c) \/ StartFlush(c) \/ Snapshot(c) \/ PushAccepted(c) \/ PushFails(c)
      PROVE  FlushFollowsHandler'
  BY <1>2 DEF SkipFlush, StartFlush, Snapshot, PushAccepted, PushFails, Flush
<1>3. ASSUME NEW i \in Instances, Recycle(i) PROVE FlushFollowsHandler'
  BY <1>3 DEF Recycle
<1>4. CASE UNCHANGED pushVars
  BY <1>4 DEF pushVars
<1> QED
  BY <1>1, <1>2, <1>3, <1>4 DEF PushNext, CallNext

\* The flag keeps a second push out, and every end of a push resets it.
LEMMA FlagStep ==
  PushTypeOK /\ FlushFollowsHandler /\ FlagMeansPush /\ [PushNext]_pushVars => FlagMeansPush'
<1> SUFFICES ASSUME PushTypeOK, FlushFollowsHandler, FlagMeansPush, [PushNext]_pushVars
             PROVE  FlagMeansPush'
  OBVIOUS
<1> USE DEF PushTypeOK, Pushing
<1>1. ASSUME NEW c \in Calls, Begin(c) \/ BeginSilent(c) \/ Count(c) \/ Respond(c)
      PROVE  FlagMeansPush'
  <2>1. \A d \in Calls : Pushing(d)' <=> Pushing(d)
    BY <1>1 DEF Begin, BeginSilent, Count, Respond, FlushFollowsHandler
  <2>2. UNCHANGED <<at, pushing>>
    BY <1>1 DEF Begin, BeginSilent, Count, Respond
  <2> QED
    BY <2>1, <2>2 DEF FlagMeansPush
<1>2. ASSUME NEW c \in Calls, SkipFlush(c) \/ Snapshot(c) PROVE FlagMeansPush'
  <2>1. \A d \in Calls : Pushing(d)' <=> Pushing(d)
    BY <1>2 DEF SkipFlush, Snapshot, Flush
  <2>2. UNCHANGED <<at, pushing>>
    BY <1>2 DEF SkipFlush, Snapshot, Flush
  <2> QED
    BY <2>1, <2>2 DEF FlagMeansPush
<1>3. ASSUME NEW c \in Calls, StartFlush(c) PROVE FlagMeansPush'
  <2>1. \A d \in Calls : Pushing(d)' <=> d = c \/ Pushing(d)
    BY <1>3 DEF StartFlush, Flush
  <2>2. \A d \in Calls : Pushing(d) => at[d] # at[c]
    BY <1>3 DEF StartFlush, FlagMeansPush
  <2>3. at' = at /\ pushing' = [pushing EXCEPT ![at[c]] = TRUE]
    BY <1>3 DEF StartFlush, Flush
  <2>4. \A d \in Calls : Pushing(d)' => pushing'[at'[d]]
    BY <2>1, <2>3 DEF FlagMeansPush
  <2>5. ASSUME NEW i \in Instances, pushing'[i]
        PROVE  \E d \in Calls : at'[d] = i /\ Pushing(d)'
    BY <2>1, <2>3, <2>5 DEF FlagMeansPush
  <2>6. \A d, e \in Calls : Pushing(d)' /\ Pushing(e)' /\ at'[d] = at'[e] => d = e
    BY <2>1, <2>2, <2>3 DEF FlagMeansPush
  <2> QED
    BY <2>4, <2>5, <2>6 DEF FlagMeansPush
<1>4. ASSUME NEW c \in Calls, PushAccepted(c) \/ PushFails(c) PROVE FlagMeansPush'
  <2>1. \A d \in Calls : Pushing(d)' <=> d # c /\ Pushing(d)
    BY <1>4 DEF PushAccepted, PushFails, Flush
  <2>2. \A d \in Calls : d # c /\ Pushing(d) => at[d] # at[c]
    BY <1>4 DEF PushAccepted, PushFails, Flush, FlagMeansPush
  <2>3. at' = at /\ pushing' = [pushing EXCEPT ![at[c]] = FALSE]
    BY <1>4 DEF PushAccepted, PushFails, Flush
  <2>4. \A d \in Calls : Pushing(d)' => pushing'[at'[d]]
    BY <2>1, <2>2, <2>3 DEF FlagMeansPush
  <2>5. ASSUME NEW i \in Instances, pushing'[i]
        PROVE  \E d \in Calls : at'[d] = i /\ Pushing(d)'
    <3>1. i # at[c] /\ pushing[i]
      BY <2>3, <2>5
    <3> QED
      BY <2>1, <2>3, <3>1 DEF FlagMeansPush
  <2>6. \A d, e \in Calls : Pushing(d)' /\ Pushing(e)' /\ at'[d] = at'[e] => d = e
    BY <2>1, <2>3 DEF FlagMeansPush
  <2> QED
    BY <2>4, <2>5, <2>6 DEF FlagMeansPush
<1>5. ASSUME NEW j \in Instances, Recycle(j) PROVE FlagMeansPush'
  <2>1. \A d \in Calls : Pushing(d)' <=> at[d] # j /\ Pushing(d)
    BY <1>5 DEF Recycle, FlushFollowsHandler
  <2>2. at' = at /\ pushing' = [pushing EXCEPT ![j] = FALSE]
    BY <1>5 DEF Recycle
  <2>3. ASSUME NEW i \in Instances, pushing'[i]
        PROVE  \E d \in Calls : at'[d] = i /\ Pushing(d)'
    <3>1. i # j /\ pushing[i]
      BY <2>2, <2>3
    <3> QED
      BY <2>1, <2>2, <3>1 DEF FlagMeansPush
  <2>4. \A d \in Calls : Pushing(d)' => pushing'[at'[d]]
    BY <2>1, <2>2 DEF FlagMeansPush
  <2>5. \A d, e \in Calls : Pushing(d)' /\ Pushing(e)' /\ at'[d] = at'[e] => d = e
    BY <2>1, <2>2 DEF FlagMeansPush
  <2> QED
    BY <2>3, <2>4, <2>5 DEF FlagMeansPush
<1>6. CASE UNCHANGED pushVars
  BY <1>6 DEF pushVars, FlagMeansPush
<1> QED
  BY <1>1, <1>2, <1>3, <1>4, <1>5, <1>6 DEF PushNext, CallNext

LEMMA ReportStep ==
  PushInv /\ [PushNext]_pushVars => ReportsAreCovered'
<1> SUFFICES ASSUME PushInv, [PushNext]_pushVars PROVE ReportsAreCovered'
  OBVIOUS
<1> USE DEF PushTypeOK
<1>0. PushTypeOK /\ FlushFollowsHandler /\ FlagMeansPush /\ ReportsAreCovered
  BY DEF PushInv
<1>a. \A c, d \in Calls :
        /\ flush[c] \in {"snapshot", "push"} /\ flush[d] \in {"snapshot", "push"}
        /\ at[c] = at[d]
        => c = d
  BY <1>0 DEF FlagMeansPush, Pushing
<1>b. \A c \in Calls : flush[c] \in {"snapshot", "push"} => pushing[at[c]]
  BY <1>0 DEF FlagMeansPush, Pushing
<1>1. ASSUME NEW c \in Calls, Begin(c) \/ BeginSilent(c) PROVE ReportsAreCovered'
  BY <1>0, <1>1 DEF Begin, BeginSilent, ReportsAreCovered, Covered, FlushFollowsHandler
<1>2. ASSUME NEW c \in Calls, Count(c) PROVE ReportsAreCovered'
  <2>1. Covered(at[c])'
    BY <1>0, <1>2 DEF Count, Covered, FlushFollowsHandler
  <2>2. \A i \in Instances : Covered(i) => Covered(i)'
    BY <1>0, <1>2 DEF Count, Covered
  <2>3. \A i \in Instances : i # at[c] => count'[i] = count[i]
    BY <1>0, <1>2 DEF Count
  <2> QED
    BY <1>0, <1>2, <2>1, <2>2, <2>3 DEF Count, ReportsAreCovered
<1>3. ASSUME NEW c \in Calls, Respond(c) PROVE ReportsAreCovered'
  BY <1>0, <1>3 DEF Respond, ReportsAreCovered, Covered
<1>4. ASSUME NEW c \in Calls, SkipFlush(c) PROVE ReportsAreCovered'
  BY <1>0, <1>4 DEF SkipFlush, Flush, ReportsAreCovered, Covered
<1>5. ASSUME NEW c \in Calls, StartFlush(c) PROVE ReportsAreCovered'
  <2>1. \A i \in Instances : i # at[c] => Covered(i)' = Covered(i)
    BY <1>0, <1>5 DEF StartFlush, Flush, Covered
  <2>2. \A d \in Calls : flush'[d] = "push" => flush[d] = "push" /\ at[d] # at[c]
    BY <1>0, <1>5, <1>b DEF StartFlush, Flush
  <2>3. pushing'[at[c]]
    BY <1>0, <1>5 DEF StartFlush
  <2>4. \A i \in Instances : i # at[c] => pushing'[i] = pushing[i]
    BY <1>0, <1>5 DEF StartFlush
  <2>5. UNCHANGED <<at, taken, count, accepted>>
    BY <1>5 DEF StartFlush, Flush
  <2> QED
    BY <1>0, <2>1, <2>2, <2>3, <2>4, <2>5 DEF ReportsAreCovered
<1>6. ASSUME NEW c \in Calls, Snapshot(c) PROVE ReportsAreCovered'
  <2>1. \A i \in Instances : i # at[c] => Covered(i)' = Covered(i)
    BY <1>0, <1>6 DEF Snapshot, Flush, Covered
  <2>2. \A d \in Calls : flush'[d] = "push" /\ d # c => flush[d] = "push" /\ at[d] # at[c]
    BY <1>0, <1>6, <1>a DEF Snapshot, Flush
  <2>3. pushing[at[c]]
    BY <1>6, <1>b DEF Snapshot, Flush
  <2>4. taken'[c] = count[at[c]] /\ \A d \in Calls : d # c => taken'[d] = taken[d]
    BY <1>0, <1>6 DEF Snapshot
  <2>5. UNCHANGED <<at, pushing, count, accepted>>
    BY <1>6 DEF Snapshot, Flush
  <2> QED
    BY <1>0, <2>1, <2>2, <2>3, <2>4, <2>5 DEF ReportsAreCovered
<1>7. ASSUME NEW c \in Calls, PushAccepted(c) PROVE ReportsAreCovered'
  <2>1. \A i \in Instances : Covered(i)' = Covered(i)
    BY <1>0, <1>7 DEF PushAccepted, Flush, Covered
  <2>2. taken[c] = count[at[c]] \/ Covered(at[c])
    BY <1>0, <1>7 DEF PushAccepted, Flush, ReportsAreCovered
  <2>3. accepted'[at[c]] = taken[c] /\ \A i \in Instances : i # at[c] => accepted'[i] = accepted[i]
    BY <1>0, <1>7 DEF PushAccepted
  <2>4. \A d \in Calls : flush'[d] = "push" => flush[d] = "push"
    BY <1>0, <1>7 DEF PushAccepted, Flush
  <2>5. \A i \in Instances : i # at[c] => pushing'[i] = pushing[i]
    BY <1>0, <1>7 DEF PushAccepted
  <2>6. UNCHANGED <<at, taken, count>>
    BY <1>7 DEF PushAccepted, Flush
  <2> QED
    BY <1>0, <2>1, <2>2, <2>3, <2>4, <2>5, <2>6 DEF ReportsAreCovered
<1>8. ASSUME NEW c \in Calls, PushFails(c) PROVE ReportsAreCovered'
  <2>1. Covered(at[c])'
    BY <1>0, <1>8 DEF PushFails, Flush, Covered
  <2>2. \A i \in Instances : Covered(i) => Covered(i)'
    BY <1>0, <1>8 DEF PushFails, Flush, Covered
  <2>3. \A d \in Calls : flush'[d] = "push" => flush[d] = "push"
    BY <1>0, <1>8 DEF PushFails, Flush
  <2>4. \A i \in Instances : i # at[c] => pushing'[i] = pushing[i]
    BY <1>0, <1>8 DEF PushFails
  <2>5. UNCHANGED <<at, taken, count, accepted>>
    BY <1>8 DEF PushFails, Flush
  <2> QED
    BY <1>0, <2>1, <2>2, <2>3, <2>4, <2>5 DEF ReportsAreCovered
<1>9. ASSUME NEW j \in Instances, Recycle(j) PROVE ReportsAreCovered'
  <2>1. \A i \in Instances : i # j => Covered(i)' = Covered(i)
    BY <1>0, <1>9 DEF Recycle, Covered
  <2>2. \A d \in Calls : flush'[d] = "push" => flush[d] = "push" /\ at[d] # j
    BY <1>0, <1>9 DEF Recycle, FlushFollowsHandler
  <2>3. accepted'[j] = count'[j]
    BY <1>0, <1>9 DEF Recycle
  <2>4. \A i \in Instances : i # j => /\ pushing'[i] = pushing[i]
                                      /\ accepted'[i] = accepted[i]
                                      /\ count'[i] = count[i]
    BY <1>0, <1>9 DEF Recycle
  <2>5. UNCHANGED <<at, taken>>
    BY <1>9 DEF Recycle
  <2> QED
    BY <1>0, <2>1, <2>2, <2>3, <2>4, <2>5 DEF ReportsAreCovered
<1>10. CASE UNCHANGED pushVars
  BY <1>0, <1>10 DEF pushVars, ReportsAreCovered, Covered
<1> QED
  BY <1>1, <1>2, <1>3, <1>4, <1>5, <1>6, <1>7, <1>8, <1>9, <1>10 DEF PushNext, CallNext

LEMMA PushStep == PushInv /\ [PushNext]_pushVars => PushInv'
BY PushTypeStep, FollowStep, FlagStep, ReportStep DEF PushInv

LEMMA RestIsReported == PushInv => NothingLeftBehind
<1> SUFFICES ASSUME PushInv, NEW i \in Instances, Quiet(i)
             PROVE  accepted[i] = count[i] \/ missed[i] \/ unflushed[i]
  BY DEF NothingLeftBehind
<1>1. \A c \in Calls : at[c] = i => flush[c] \in {"none", "over"}
  BY DEF PushInv, Quiet, FlushFollowsHandler
<1>2. ~pushing[i]
  BY <1>1 DEF PushInv, FlagMeansPush, Pushing
<1> QED
  BY <1>1, <1>2 DEF PushInv, ReportsAreCovered, Covered

\* flushMetrics under after(): whatever is skipped, fails or is recycled, an
\* instance at rest has reported all it counted, unless a flush was skipped, a push
\* failed or a call that schedules no flush counted since its last snapshot.
THEOREM RestIsComplete == PushSpec => []NothingLeftBehind
BY PushInitInv, PushStep, RestIsReported, PTL DEF PushSpec

\* pushingInFlight is set exactly while one push of the instance is under way.
THEOREM OnePushAtATime == PushSpec => []FlagMeansPush
<1>1. PushInv => FlagMeansPush
  BY DEF PushInv
<1> QED
  BY PushInitInv, PushStep, <1>1, PTL DEF PushSpec

-----------------------------------------------------------------------------
(* Numbers: what C(n + t, t), a quotient of factorials, satisfies. *)

\* Induction on numbers, stated of a set: what is left out would have a least member.
LEMMA NatInduct ==
  ASSUME NEW S \in SUBSET Nat, 0 \in S, \A n \in S : n + 1 \in S
  PROVE  S = Nat
<1> SUFFICES ASSUME S # Nat PROVE FALSE
  OBVIOUS
<1> DEFINE T == Nat \ S
<1> DEFINE R == {ss \in Nat \X Nat : ss[1] < ss[2]}
<1>1. T \subseteq Nat /\ T # {}
  OBVIOUS
<1>0. IsWellFoundedOn(R, Nat)
  BY NatLessThanWellFounded DEF OpToRel
<1>2. PICK x \in T : \A y \in T : ~ (<<y, x>> \in R)
  <2> HIDE DEF T, R
  <2> QED
    BY <1>0, <1>1, WFMin
<1>3. \A y \in T : ~ (y < x)
  BY <1>1, <1>2
<1>4. x \in Nat /\ x # 0 /\ x - 1 \in Nat /\ x - 1 \notin T /\ x \notin S
  BY <1>3
<1> QED
  BY <1>4

\* f holds the factorials of 0 .. n.
Factorials(f, n) ==
  /\ f \in [0 .. n -> Nat \ {0}]
  /\ \A i \in 0 .. n : f[i] = IF i = 0 THEN 1 ELSE i * f[i - 1]

LEMMA TimesNat ==
  ASSUME NEW a \in Nat \ {0}, NEW b \in Nat \ {0}
  PROVE  a * b \in Nat \ {0}
OBVIOUS

\* There is such a function, and but one: factorial is what its equation says.
LEMMA FactorialUpTo == \A n \in Nat : \E f : Factorials(f, n)
<1> DEFINE S == {n \in Nat : \E f : Factorials(f, n)}
<1>1. 0 \in S
  <2>1. Factorials([i \in 0 .. 0 |-> 1], 0)
    BY DEF Factorials
  <2> QED
    BY <2>1
<1>2. ASSUME NEW n \in S PROVE n + 1 \in S
  <2>1. PICK f : Factorials(f, n)
    OBVIOUS
  <2> DEFINE g == [i \in 0 .. n + 1 |-> IF i = n + 1 THEN (n + 1) * f[n] ELSE f[i]]
  <2>2. n \in Nat /\ f[n] \in Nat \ {0}
    BY <2>1 DEF Factorials
  <2>4. (n + 1) * f[n] \in Nat \ {0}
    BY <2>2
  <2>5. ASSUME NEW i \in 0 .. n + 1
        PROVE  g[i] \in Nat \ {0} /\ g[i] = IF i = 0 THEN 1 ELSE i * g[i - 1]
    <3>1. CASE i = n + 1
      BY <2>2, <2>4, <3>1
    <3>2. CASE i # n + 1
      <4>1. i \in 0 .. n /\ g[i] = f[i] /\ (i # 0 => i - 1 \in 0 .. n + 1 /\ i - 1 # n + 1)
        BY <2>2, <3>2
      <4> QED
        BY <2>1, <4>1 DEF Factorials
    <3> QED
      BY <3>1, <3>2
  <2>6. g \in [0 .. n + 1 -> Nat \ {0}]
    BY <2>5
  <2>3. Factorials(g, n + 1)
    <3> HIDE DEF g
    <3> QED
      BY <2>5, <2>6 DEF Factorials
  <2> QED
    BY <2>2, <2>3
<1>3. S = Nat
  <2> HIDE DEF S
  <2>1. S \subseteq Nat
    BY DEF S
  <2> QED
    BY <1>1, <1>2, <2>1, NatInduct
<1> QED
  BY <1>3

LEMMA FactorialUnique ==
  ASSUME NEW m \in Nat, NEW n \in Nat, m <= n, NEW f, NEW g, Factorials(f, m), Factorials(g, n)
  PROVE  \A i \in 0 .. m : f[i] = g[i]
<1> DEFINE S == {i \in Nat : i <= m => f[i] = g[i]}
<1>1. 0 \in S
  BY DEF Factorials
<1>2. ASSUME NEW i \in S PROVE i + 1 \in S
  <2> SUFFICES ASSUME i + 1 <= m PROVE f[i + 1] = g[i + 1]
    OBVIOUS
  <2>1. i \in Nat /\ f[i] = g[i] /\ i + 1 # 0 /\ (i + 1) - 1 = i /\ i + 1 \in 0 .. m /\ i + 1 \in 0 .. n
    OBVIOUS
  <2> QED
    BY <2>1 DEF Factorials
<1>3. S = Nat
  <2> HIDE DEF S
  <2>1. S \subseteq Nat
    BY DEF S
  <2> QED
    BY <1>1, <1>2, <2>1, NatInduct
<1> QED
  BY <1>3

LEMMA FactorialDef ==
  /\ factorial \in [Nat -> Nat \ {0}]
  /\ factorial[0] = 1
  /\ \A n \in Nat : factorial[n + 1] = (n + 1) * factorial[n]
<1> DEFINE h(n) == CHOOSE f : Factorials(f, n)
           F == [n \in Nat |-> h(n)[n]]
<1>1. \A n \in Nat : Factorials(h(n), n)
  BY FactorialUpTo
<1>2. ASSUME NEW n \in Nat PROVE F[n] \in Nat \ {0} /\ F[n] = IF n = 0 THEN 1 ELSE n * F[n - 1]
  <2>1. Factorials(h(n), n)
    BY <1>1
  <2>2. h(n)[n] \in Nat \ {0} /\ h(n)[n] = IF n = 0 THEN 1 ELSE n * h(n)[n - 1]
    <3> HIDE DEF h
    <3> QED
      BY <2>1 DEF Factorials
  <2>3. n # 0 => h(n)[n - 1] = h(n - 1)[n - 1]
    <3>1. n # 0 => n - 1 \in Nat /\ n - 1 <= n /\ Factorials(h(n - 1), n - 1) /\ n - 1 \in 0 .. n - 1
      BY <1>1
    <3> HIDE DEF h
    <3> QED
      BY <2>1, <3>1, FactorialUnique
  <2>4. F[n] = h(n)[n] /\ (n # 0 => n - 1 \in Nat /\ F[n - 1] = h(n - 1)[n - 1])
    <3> HIDE DEF h
    <3> QED
      OBVIOUS
  <2> HIDE DEF F, h
  <2> QED
    BY <2>2, <2>3, <2>4
<1>3. F = [n \in Nat |-> IF n = 0 THEN 1 ELSE n * F[n - 1]]
  <2>1. F = [n \in Nat |-> F[n]]
    OBVIOUS
  <2> HIDE DEF F
  <2> QED
    BY <1>2, <2>1
<1>4. factorial = [n \in Nat |-> IF n = 0 THEN 1 ELSE n * factorial[n - 1]]
  <2> HIDE DEF F
  <2> QED
    BY <1>3 DEF factorial
<1> DEFINE P == {n \in Nat : factorial[n] \in Nat \ {0}}
<1>5. 0 \in P /\ factorial[0] = 1
  BY <1>4
<1>6. \A n \in Nat : factorial[n + 1] = (n + 1) * factorial[n]
  <2> TAKE n \in Nat
  <2>1. n + 1 \in Nat /\ n + 1 # 0 /\ (n + 1) - 1 = n
    OBVIOUS
  <2> QED
    BY <1>4, <2>1
<1>7. ASSUME NEW n \in P PROVE n + 1 \in P
  <2>1. n + 1 \in Nat \ {0} /\ factorial[n] \in Nat \ {0} /\ factorial[n + 1] = (n + 1) * factorial[n]
    BY <1>6
  <2> QED
    BY <2>1, TimesNat
<1>8. P = Nat
  <2> HIDE DEF P
  <2>1. P \subseteq Nat
    BY DEF P
  <2> QED
    BY <1>5, <1>7, <2>1, NatInduct
<1>9. \A n \in Nat : factorial[n] \in Nat \ {0}
  BY <1>8
<1>10. factorial \in [Nat -> Nat \ {0}]
  BY <1>4, <1>9
<1> QED
  BY <1>5, <1>6, <1>10

LEMMA FactorialNat ==
  ASSUME NEW n \in Nat PROVE factorial[n] \in Nat /\ factorial[n] \in Nat \ {0}
<1>1. factorial \in [Nat -> Nat \ {0}]
  BY FactorialDef
<1> QED
  BY <1>1

LEMMA DivExact ==
  ASSUME NEW a \in Nat, NEW c \in Nat \ {0}
  PROVE  (a * c) \div c = a
OBVIOUS

LEMMA PascalProduct ==
  ASSUME NEW n \in Nat, NEW t \in Nat, NEW p \in Nat, NEW q \in Nat,
         factorial[n + t + 1] = p * (factorial[t + 1] * factorial[n]),
         factorial[n + t + 1] = q * (factorial[t] * factorial[n + 1])
  PROVE  factorial[(n + 1) + (t + 1)] = (p + q) * (factorial[t + 1] * factorial[n + 1])
<1> DEFINE u == n + 1
           v == t + 1
           A == factorial[t]
           B == factorial[n]
           x == factorial[n + t + 1]
<1>1. u \in Nat /\ v \in Nat /\ n + t + 1 \in Nat /\ (n + t + 1) + 1 = (n + 1) + (t + 1)
  OBVIOUS
<1>2. A \in Nat /\ B \in Nat /\ x \in Nat
  BY <1>1, FactorialNat
<1>3. factorial[n + 1] = u * B /\ factorial[t + 1] = v * A
  BY FactorialDef
<1>4. factorial[(n + 1) + (t + 1)] = ((n + t + 1) + 1) * x
  BY <1>1, FactorialDef
<1>5. x = p * ((v * A) * B) /\ x = q * (A * (u * B))
  BY <1>3
<1>6. (n + t + 1) + 1 = u + v
  OBVIOUS
<1> HIDE DEF u, v, A, B, x
<1>7. (u + v) * x = u * x + v * x
  BY <1>1, <1>2
<1>8. u * x = p * ((v * A) * (u * B))
  BY <1>1, <1>2, <1>5
<1>9. v * x = q * ((v * A) * (u * B))
  BY <1>1, <1>2, <1>5
<1>10. (v * A) * (u * B) \in Nat
  BY <1>1, <1>2
<1>11. (p + q) * ((v * A) * (u * B)) = p * ((v * A) * (u * B)) + q * ((v * A) * (u * B))
  BY <1>10
<1> QED
  BY <1>3, <1>4, <1>6, <1>7, <1>8, <1>9, <1>11

\* C(n + t, t), and Pascal's rule for it.
Ways(n, t) == choose(n + t, t)

LEMMA WaysIs ==
  ASSUME NEW n \in Nat, NEW t \in Nat, NEW b \in Nat,
         factorial[n + t] = b * (factorial[t] * factorial[n])
  PROVE  Ways(n, t) = b
<1>1. factorial[t] * factorial[n] \in Nat \ {0}
  <2>1. factorial[t] \in Nat \ {0} /\ factorial[n] \in Nat \ {0}
    BY FactorialDef
  <2> QED
    BY <2>1, TimesNat
<1>2. (n + t) - t = n
  OBVIOUS
<1>3. Ways(n, t) = (b * (factorial[t] * factorial[n])) \div (factorial[t] * factorial[n])
  BY <1>2 DEF Ways, choose
<1> QED
  BY <1>1, <1>3, DivExact

LEMMA WaysExist ==
  ASSUME NEW n \in Nat, NEW t \in Nat
  PROVE  Ways(n, t) \in Nat \ {0} /\ factorial[n + t] = Ways(n, t) * (factorial[t] * factorial[n])
<1> DEFINE Split(i, j) ==
             \E b \in Nat \ {0} : factorial[i + j] = b * (factorial[j] * factorial[i])
           S == {s \in Nat : \A i, j \in Nat : i + j = s => Split(i, j)}
<1>0. \A i \in Nat : factorial[i] \in Nat /\ factorial[i] \in Nat \ {0}
  BY FactorialNat
<1>a. \A i \in Nat : Split(i, 0) /\ Split(0, i)
  <2> TAKE i \in Nat
  <2>1. /\ factorial[i + 0] = 1 * (factorial[0] * factorial[i])
        /\ factorial[0 + i] = 1 * (factorial[i] * factorial[0])
    <3>1. i + 0 = i /\ 0 + i = i /\ factorial[i] \in Nat
      BY <1>0
    <3>2. factorial[0] = 1
      BY FactorialDef
    <3> QED
      BY <3>1, <3>2
  <2> QED
    BY <2>1
<1>1. 0 \in S
  <2>1. \A i, j \in Nat : i + j = 0 => i = 0 /\ j = 0
    OBVIOUS
  <2> HIDE DEF Split
  <2> QED
    BY <1>a, <2>1
<1>2. ASSUME NEW s \in S PROVE s + 1 \in S
  <2> SUFFICES ASSUME NEW i \in Nat, NEW j \in Nat, i + j = s + 1 PROVE Split(i, j)
    OBVIOUS
  <2>1. CASE i = 0 \/ j = 0
    <3> HIDE DEF Split
    <3> QED
      BY <1>a, <2>1
  <2>2. CASE i # 0 /\ j # 0
    <3>1. PICK m \in Nat, k \in Nat : i = m + 1 /\ j = k + 1
      <4>1. i - 1 \in Nat /\ j - 1 \in Nat /\ i = (i - 1) + 1 /\ j = (j - 1) + 1
        BY <2>2
      <4> QED
        BY <4>1
    <3>2. s = m + (k + 1) /\ s = (m + 1) + k /\ i + j = (m + k + 1) + 1 /\ m + (k + 1) = m + k + 1 /\ (m + 1) + k = m + k + 1
      BY <3>1
    <3>3. Split(m, k + 1) /\ Split(m + 1, k)
      <4>1. m + 1 \in Nat /\ k + 1 \in Nat
        OBVIOUS
      <4> HIDE DEF Split
      <4> QED
        BY <3>2, <4>1
    <3>4. PICK p \in Nat \ {0} : factorial[m + k + 1] = p * (factorial[k + 1] * factorial[m])
      BY <3>2, <3>3
    <3>5. PICK q \in Nat \ {0} : factorial[m + k + 1] = q * (factorial[k] * factorial[m + 1])
      BY <3>2, <3>3
    <3>6. m + (k + 1) = m + k + 1 /\ (m + 1) + k = m + k + 1
      OBVIOUS
    <3>10. factorial[i + j] = (p + q) * (factorial[j] * factorial[i]) /\ p + q \in Nat \ {0}
      BY <3>1, <3>4, <3>5, PascalProduct
    <3> QED
      BY <3>10
  <2> QED
    BY <2>1, <2>2
<1>3. S = Nat
  <2> HIDE DEF S
  <2>1. S \subseteq Nat
    BY DEF S
  <2> QED
    BY <1>1, <1>2, <2>1, NatInduct
<1>4. Split(n, t)
  <2>1. n + t \in S
    <3> HIDE DEF S
    <3> QED
      BY <1>3
  <2> HIDE DEF Split
  <2> QED
    BY <2>1
<1> QED
  BY <1>4, WaysIs

LEMMA Pascal ==
  /\ \A n, t \in Nat : Ways(n, t) \in Nat \ {0}
  /\ \A n \in Nat : Ways(n, 0) = 1 /\ Ways(0, n) = 1
  /\ \A n, t \in Nat : Ways(n + 1, t + 1) = Ways(n, t + 1) + Ways(n + 1, t)
<1>1. \A n, t \in Nat : Ways(n, t) \in Nat \ {0}
  BY WaysExist
<1>2. ASSUME NEW n \in Nat PROVE Ways(n, 0) = 1 /\ Ways(0, n) = 1
  <2>1. factorial[n] \in Nat /\ factorial[0] = 1 /\ n + 0 = n /\ 0 + n = n
    <3>1. factorial[0] = 1
      BY FactorialDef
    <3> QED
      BY <3>1, FactorialNat
  <2>2. /\ factorial[n + 0] = 1 * (factorial[0] * factorial[n])
        /\ factorial[0 + n] = 1 * (factorial[n] * factorial[0])
    BY <2>1
  <2> QED
    BY <2>2, WaysIs
<1>3. ASSUME NEW n \in Nat, NEW t \in Nat
      PROVE  Ways(n + 1, t + 1) = Ways(n, t + 1) + Ways(n + 1, t)
  <2> DEFINE p == Ways(n, t + 1)
             q == Ways(n + 1, t)
             x == factorial[n + t + 1]
  <2>1. p \in Nat /\ q \in Nat /\ p + q \in Nat
    <3>1. n + 1 \in Nat /\ t + 1 \in Nat
      OBVIOUS
    <3>2. Ways(n, t + 1) \in Nat /\ Ways(n + 1, t) \in Nat
      BY <1>1, <3>1
    <3> QED
      BY <3>2
  <2>2. x = p * (factorial[t + 1] * factorial[n]) /\ x = q * (factorial[t] * factorial[n + 1])
    <3>1. n + (t + 1) = n + t + 1 /\ (n + 1) + t = n + t + 1 /\ n + 1 \in Nat /\ t + 1 \in Nat
      OBVIOUS
    <3> QED
      BY <3>1, WaysExist
  <2> HIDE DEF p, q
  <2>7. factorial[(n + 1) + (t + 1)] = (p + q) * (factorial[t + 1] * factorial[n + 1])
    BY <2>1, <2>2, PascalProduct DEF x
  <2>8. n + 1 \in Nat /\ t + 1 \in Nat
    OBVIOUS
  <2> QED
    BY <2>1, <2>7, <2>8, WaysIs DEF p, q
<1> QED
  BY <1>1, <1>2, <1>3

-----------------------------------------------------------------------------
(* Chaos injection: how many faults an order turns into when invocations
   overlap.  Rank the invocations in any order, and let the t-th, if it can take
   from n > 0, add C(n - 1 + t, t) to the faults fired.  Nothing that happens
   raises the largest of these sums, but an order and a failed write. *)

\* What an invocation that can take from n adds to the faults when it is t-th in rank.
Gain(n, t) == IF n = 0 THEN 0 ELSE Ways(n - 1, t)

LEMMA GainIs ==
  ASSUME NEW n \in Nat, NEW t \in Nat
  PROVE  /\ Gain(n, t) \in Nat
         /\ Gain(n, t) <= Gain(n + 1, t)
         /\ Gain(n + 1, t) = Ways(n, t)
         /\ Ways(n, t + 1) = Ways(n, t) + Gain(n, t + 1)
<1>1. Ways(n, t) \in Nat /\ Ways(n, t) # 0
  BY Pascal
<1>2. Gain(n + 1, t) = Ways(n, t)
  BY DEF Gain
<1>3. CASE n = 0
  <2>1. Ways(n, t + 1) = 1 /\ Ways(n, t) = 1
    BY <1>3, Pascal
  <2>2. Gain(n, t) = 0 /\ Gain(n, t + 1) = 0
    BY <1>3 DEF Gain
  <2> QED
    BY <1>1, <1>2, <2>1, <2>2
<1>4. CASE n # 0
  <2> DEFINE m == n - 1
  <2>1. m \in Nat /\ n = m + 1 /\ t + 1 \in Nat
    BY <1>4
  <2>2. Gain(n, t) = Ways(m, t) /\ Gain(n, t + 1) = Ways(m, t + 1)
    BY <1>4 DEF Gain
  <2> HIDE DEF m
  <2>3. Ways(m, t) \in Nat /\ Ways(m, t + 1) \in Nat
    BY <2>1, Pascal
  <2>4. Ways(n, t + 1) = Ways(m, t + 1) + Ways(n, t)
    BY <2>1, Pascal
  <2>5. Ways(m, t) <= Ways(n, t)
    <3>1. CASE t = 0
      <4>1. Ways(m, 0) = 1 /\ Ways(n, 0) = 1
        BY <2>1, Pascal
      <4> QED
        BY <3>1, <4>1
    <3>2. CASE t # 0
      <4>1. PICK r \in Nat : t = r + 1
        <5>1. t - 1 \in Nat /\ t = (t - 1) + 1
          BY <3>2
        <5> QED
          BY <5>1
      <4>2. Ways(n, t) = Ways(m, t) + Ways(n, r) /\ Ways(n, r) \in Nat
        BY <2>1, <4>1, Pascal
      <4> QED
        BY <2>3, <4>2
    <3> QED
      BY <3>1, <3>2
  <2> QED
    BY <1>1, <1>2, <2>2, <2>3, <2>4, <2>5
<1> QED
  BY <1>3, <1>4

LEMMA GainGrows ==
  ASSUME NEW m \in Nat, NEW n \in Nat, m <= n, NEW t \in Nat
  PROVE  Gain(m, t) <= Gain(n, t)
<1> DEFINE S == {d \in Nat : Gain(m, t) <= Gain(m + d, t)}
<1>1. 0 \in S
  <2>1. m + 0 = m /\ Gain(m, t) \in Nat
    BY GainIs
  <2> QED
    BY <2>1
<1>2. ASSUME NEW d \in S PROVE d + 1 \in S
  <2>1. m + d \in Nat /\ m + (d + 1) = (m + d) + 1 /\ Gain(m, t) <= Gain(m + d, t)
    OBVIOUS
  <2>2. /\ Gain(m, t) \in Nat /\ Gain(m + d, t) \in Nat /\ Gain((m + d) + 1, t) \in Nat
        /\ Gain(m + d, t) <= Gain((m + d) + 1, t)
    <3>1. (m + d) + 1 \in Nat
      BY <2>1
    <3> QED
      BY <2>1, <3>1, GainIs
  <2> QED
    BY <2>1, <2>2
<1>3. S = Nat
  <2> HIDE DEF S
  <2>1. S \subseteq Nat
    BY DEF S
  <2> QED
    BY <1>1, <1>2, <2>1, NatInduct
<1>4. n - m \in S /\ m + (n - m) = n
  <2> HIDE DEF S
  <2> QED
    BY <1>3
<1> QED
  BY <1>4

\* S sums what k invocations add that can take from x[1] .. x[k].
IsSum(S, k, x) ==
  /\ S \in [0 .. k -> Nat]
  /\ S[0] = 0
  /\ \A j \in 1 .. k : S[j] = S[j - 1] + Gain(x[j], j)

LEMMA SumExists ==
  ASSUME NEW k \in Nat, NEW x \in [1 .. k -> Nat] PROVE \E S : IsSum(S, k, x)
<1> DEFINE P == {n \in Nat : n <= k => \E S : IsSum(S, n, x)}
<1>1. 0 \in P
  <2>1. IsSum([j \in 0 .. 0 |-> 0], 0, x)
    BY DEF IsSum
  <2> QED
    BY <2>1
<1>2. ASSUME NEW n \in P PROVE n + 1 \in P
  <2> SUFFICES ASSUME n + 1 <= k PROVE \E S : IsSum(S, n + 1, x)
    OBVIOUS
  <2>1. PICK S : IsSum(S, n, x)
    OBVIOUS
  <2>2. n \in Nat /\ n + 1 \in 1 .. k /\ x[n + 1] \in Nat
    OBVIOUS
  <2>3. Gain(x[n + 1], n + 1) \in Nat
    <3>1. n + 1 \in Nat
      OBVIOUS
    <3> QED
      BY <2>2, <3>1, GainIs
  <2> DEFINE T == [j \in 0 .. n + 1 |-> IF j = n + 1 THEN S[n] + Gain(x[n + 1], n + 1) ELSE S[j]]
  <2>4. T \in [0 .. n + 1 -> Nat] /\ T[0] = 0
    BY <2>1, <2>2, <2>3 DEF IsSum
  <2>5. ASSUME NEW j \in 1 .. n + 1 PROVE T[j] = T[j - 1] + Gain(x[j], j)
    <3>1. CASE j = n + 1
      BY <2>2, <3>1
    <3>2. CASE j # n + 1
      <4>1. j \in 1 .. n /\ T[j] = S[j] /\ T[j - 1] = S[j - 1]
        BY <2>2, <3>2
      <4> QED
        BY <2>1, <4>1 DEF IsSum
    <3> QED
      BY <3>1, <3>2
  <2>6. IsSum(T, n + 1, x)
    <3> HIDE DEF T
    <3> QED
      BY <2>4, <2>5 DEF IsSum
  <2> QED
    BY <2>6
<1>3. P = Nat
  <2> HIDE DEF P
  <2>1. P \subseteq Nat
    BY DEF P
  <2> QED
    BY <1>1, <1>2, <2>1, NatInduct
<1>4. k \in P
  <2> HIDE DEF P
  <2> QED
    BY <1>3
<1> QED
  BY <1>4

\* One summand more.
AddsUp(S, k, x) ==
  \A n \in Nat : n + 1 <= k =>
    /\ S[n] \in Nat /\ S[n + 1] \in Nat /\ x[n + 1] \in Nat
    /\ Gain(x[n + 1], n + 1) \in Nat
    /\ S[n + 1] = S[n] + Gain(x[n + 1], n + 1)

LEMMA SumStep ==
  ASSUME NEW k \in Nat, NEW x \in [1 .. k -> Nat], NEW S, IsSum(S, k, x)
  PROVE  AddsUp(S, k, x)
<1> SUFFICES ASSUME NEW n \in Nat, n + 1 <= k
             PROVE  /\ S[n] \in Nat /\ S[n + 1] \in Nat /\ x[n + 1] \in Nat
                    /\ Gain(x[n + 1], n + 1) \in Nat
                    /\ S[n + 1] = S[n] + Gain(x[n + 1], n + 1)
  BY DEF AddsUp
<1>1. n \in 0 .. k /\ n + 1 \in 0 .. k /\ n + 1 \in 1 .. k /\ (n + 1) - 1 = n /\ n + 1 \in Nat
  OBVIOUS
<1>2. x[n + 1] \in Nat
  BY <1>1
<1>3. Gain(x[n + 1], n + 1) \in Nat
  BY <1>1, <1>2, GainIs
<1> QED
  BY <1>1, <1>2, <1>3 DEF IsSum

\* Who takes no more adds no more.
LEMMA SumGrows ==
  ASSUME NEW k \in Nat, NEW x \in [1 .. k -> Nat], NEW y \in [1 .. k -> Nat],
         \A j \in 1 .. k : x[j] <= y[j],
         NEW S, NEW T, IsSum(S, k, x), IsSum(T, k, y)
  PROVE  S[k] <= T[k]
<1>0. AddsUp(S, k, x) /\ AddsUp(T, k, y)
  BY SumStep
<1> DEFINE P == {n \in Nat : n <= k => S[n] <= T[n]}
<1>1. 0 \in P
  BY DEF IsSum
<1>2. ASSUME NEW n \in P PROVE n + 1 \in P
  <2> SUFFICES ASSUME n + 1 <= k PROVE S[n + 1] <= T[n + 1]
    OBVIOUS
  <2>0. n \in Nat
    OBVIOUS
  <2>1. n + 1 \in Nat /\ n + 1 \in 1 .. k /\ n <= k /\ S[n] <= T[n]
    BY <2>0
  <2>2. /\ S[n] \in Nat /\ S[n + 1] \in Nat /\ x[n + 1] \in Nat /\ Gain(x[n + 1], n + 1) \in Nat
        /\ S[n + 1] = S[n] + Gain(x[n + 1], n + 1)
    BY <1>0, <2>0 DEF AddsUp
  <2>3. /\ T[n] \in Nat /\ T[n + 1] \in Nat /\ y[n + 1] \in Nat /\ Gain(y[n + 1], n + 1) \in Nat
        /\ T[n + 1] = T[n] + Gain(y[n + 1], n + 1)
    BY <1>0, <2>0 DEF AddsUp
  <2>4. Gain(x[n + 1], n + 1) <= Gain(y[n + 1], n + 1)
    <3>1. x[n + 1] <= y[n + 1]
      BY <2>1
    <3> HIDE DEF P
    <3> QED
      BY <2>1, <2>2, <2>3, <3>1, GainGrows
  <2> HIDE DEF P
  <2> QED
    BY <2>1, <2>2, <2>3, <2>4
<1>3. P = Nat
  <2> HIDE DEF P
  <2>1. P \subseteq Nat
    BY DEF P
  <2> QED
    BY <1>1, <1>2, <2>1, NatInduct
<1>4. k \in P
  <2> HIDE DEF P
  <2> QED
    BY <1>3
<1> QED
  BY <1>4

\* If nobody takes from more than n, together they add less than Ways(n, k).
LEMMA SumIsBounded ==
  ASSUME NEW k \in Nat, NEW x \in [1 .. k -> Nat], NEW n \in Nat,
         \A j \in 1 .. k : x[j] <= n, NEW S, IsSum(S, k, x)
  PROVE  S[k] + 1 <= Ways(n, k)
<1>0. AddsUp(S, k, x)
  BY SumStep
<1> DEFINE P == {t \in Nat : t <= k => S[t] + 1 <= Ways(n, t)}
<1>1. 0 \in P
  <2>1. S[0] = 0 /\ Ways(n, 0) = 1
    BY Pascal DEF IsSum
  <2> QED
    BY <2>1
<1>2. ASSUME NEW t \in P PROVE t + 1 \in P
  <2> SUFFICES ASSUME t + 1 <= k PROVE S[t + 1] + 1 <= Ways(n, t + 1)
    OBVIOUS
  <2>0. t \in Nat
    OBVIOUS
  <2>1. t + 1 \in Nat /\ t + 1 \in 1 .. k /\ t <= k /\ S[t] + 1 <= Ways(n, t)
    BY <2>0
  <2>2. /\ S[t] \in Nat /\ S[t + 1] \in Nat /\ x[t + 1] \in Nat /\ Gain(x[t + 1], t + 1) \in Nat
        /\ S[t + 1] = S[t] + Gain(x[t + 1], t + 1)
    BY <1>0, <2>0 DEF AddsUp
  <2>3. Gain(x[t + 1], t + 1) <= Gain(n, t + 1)
    <3>1. x[t + 1] <= n
      BY <2>1
    <3> HIDE DEF P
    <3> QED
      BY <2>1, <2>2, <3>1, GainGrows
  <2> HIDE DEF P
  <2>4. Ways(n, t + 1) = Ways(n, t) + Gain(n, t + 1) /\ Ways(n, t) \in Nat /\ Gain(n, t + 1) \in Nat
    <3>1. Ways(n, t) \in Nat
      BY <2>0, Pascal
    <3>2. Ways(n, t + 1) = Ways(n, t) + Gain(n, t + 1)
      BY <2>0, GainIs
    <3>3. Gain(n, t + 1) \in Nat
      BY <2>1, GainIs
    <3> QED
      BY <3>1, <3>2, <3>3
  <2> QED
    BY <2>1, <2>2, <2>3, <2>4
<1>3. P = Nat
  <2> HIDE DEF P
  <2>1. P \subseteq Nat
    BY DEF P
  <2> QED
    BY <1>1, <1>2, <2>1, NatInduct
<1>4. k \in P
  <2> HIDE DEF P
  <2> QED
    BY <1>3
<1> QED
  BY <1>4

\* Sums of numbers.
LEMMA LessIsKept ==
  \A s, t, w, v, g, h \in Nat :
    s + 1 <= t + w /\ (g <= v \/ g <= h) => (s + g) + 1 <= (t + h) + (w + v)
OBVIOUS

LEMMA LessIsPaid ==
  \A s, t, w, v, g, h \in Nat :
    s + 1 <= t + w /\ g <= v /\ w + v <= h => (s + g) + 1 <= t + h
OBVIOUS

LEMMA LessByOne ==
  \A s, t, g, h \in Nat : s + 1 <= t /\ g <= h => (s + g) + 1 <= t + h
OBVIOUS

\* From y to x the m-th fires: it took from u + 1 and leaves u, to itself and to
\* whoever took from less.  Those behind it take from more than u, as before.
FiresAt(m, u, k, x, y) ==
  /\ \A j \in 1 .. m - 1 : x[j] <= u \/ x[j] <= y[j]
  /\ x[m] <= u /\ u + 1 <= y[m]
  /\ \A j \in m + 1 .. k : x[j] <= y[j]

\* What the m-th adds no longer pays for its fault and for what those before it add
\* instead: Ways(u, m) is what m invocations can make of u, with one to spare.
LEMMA OneFires ==
  ASSUME NEW k \in Nat, NEW m \in 1 .. k, NEW u \in Nat,
         NEW x \in [1 .. k -> Nat], NEW y \in [1 .. k -> Nat],
         FiresAt(m, u, k, x, y),
         NEW S, NEW T, IsSum(S, k, x), IsSum(T, k, y)
  PROVE  S[k] + 1 <= T[k]
<1>0. AddsUp(S, k, x) /\ AddsUp(T, k, y)
  BY SumStep
<1>a. ASSUME NEW n \in Nat
      PROVE  /\ Ways(u, n + 1) = Ways(u, n) + Gain(u, n + 1)
             /\ Ways(u, n) \in Nat /\ Gain(u, n + 1) \in Nat
             /\ Gain(u + 1, n + 1) = Ways(u, n + 1)
  <2>1. n + 1 \in Nat
    OBVIOUS
  <2> QED
    BY <2>1, GainIs, Pascal
<1> DEFINE P == {n \in Nat : n < m => S[n] + 1 <= T[n] + Ways(u, n)}
<1>1. 0 \in P
  <2>1. S[0] = 0 /\ T[0] = 0 /\ Ways(u, 0) = 1
    BY Pascal DEF IsSum
  <2> QED
    BY <2>1
<1>2. ASSUME NEW n \in P PROVE n + 1 \in P
  <2> SUFFICES ASSUME n + 1 < m PROVE S[n + 1] + 1 <= T[n + 1] + Ways(u, n + 1)
    OBVIOUS
  <2>0. n \in Nat /\ n < m
    OBVIOUS
  <2>1. /\ n \in Nat /\ n + 1 \in Nat /\ n + 1 <= k /\ n + 1 \in 1 .. m - 1
        /\ S[n] + 1 <= T[n] + Ways(u, n)
    BY <2>0
  <2> HIDE DEF P
  <2>3. /\ S[n] \in Nat /\ S[n + 1] \in Nat /\ x[n + 1] \in Nat /\ Gain(x[n + 1], n + 1) \in Nat
        /\ S[n + 1] = S[n] + Gain(x[n + 1], n + 1)
        /\ T[n] \in Nat /\ T[n + 1] \in Nat /\ y[n + 1] \in Nat /\ Gain(y[n + 1], n + 1) \in Nat
        /\ T[n + 1] = T[n] + Gain(y[n + 1], n + 1)
    BY <2>1, <1>0 DEF AddsUp
  <2>2. \/ Gain(x[n + 1], n + 1) <= Gain(u, n + 1)
        \/ Gain(x[n + 1], n + 1) <= Gain(y[n + 1], n + 1)
    <3>1. x[n + 1] <= u \/ x[n + 1] <= y[n + 1]
      BY <2>1 DEF FiresAt
    <3> QED
      BY <2>1, <2>3, <3>1, GainGrows
  <2>4. /\ Ways(u, n + 1) = Ways(u, n) + Gain(u, n + 1)
        /\ Ways(u, n) \in Nat /\ Gain(u, n + 1) \in Nat
    BY <2>1, <1>a
  <2> QED
    <3>1. S[n] + 1 <= T[n] + Ways(u, n)
      BY <2>1
    <3>2. (S[n] + Gain(x[n + 1], n + 1)) + 1
            <= (T[n] + Gain(y[n + 1], n + 1)) + (Ways(u, n) + Gain(u, n + 1))
      BY <2>2, <2>3, <2>4, <3>1, LessIsKept, Zenon
    <3> QED
      BY <2>3, <2>4, <3>2, Zenon
<1>3. P = Nat
  <2> HIDE DEF P
  <2>1. P \subseteq Nat
    BY DEF P
  <2> QED
    BY <1>1, <1>2, <2>1, NatInduct
<1>4. S[m] + 1 <= T[m] /\ S[m] \in Nat /\ T[m] \in Nat
  <2>1. PICK n \in Nat : m = n + 1
    <3>1. m - 1 \in Nat /\ m = (m - 1) + 1
      OBVIOUS
    <3> QED
      BY <3>1
  <2>2. S[n] + 1 <= T[n] + Ways(u, n)
    <3>1. n \in P
      <4> HIDE DEF P
      <4> QED
        BY <1>3
    <3> QED
      BY <2>1, <3>1
  <2>3. n + 1 <= k /\ n + 1 \in Nat /\ u + 1 \in Nat
    BY <2>1
  <2> HIDE DEF P
  <2>5. /\ S[n] \in Nat /\ S[m] \in Nat /\ x[m] \in Nat /\ Gain(x[m], m) \in Nat /\ S[m] = S[n] + Gain(x[m], m)
        /\ T[n] \in Nat /\ T[m] \in Nat /\ y[m] \in Nat /\ Gain(y[m], m) \in Nat /\ T[m] = T[n] + Gain(y[m], m)
    <3>1. /\ S[n] \in Nat /\ S[n + 1] \in Nat /\ x[n + 1] \in Nat /\ Gain(x[n + 1], n + 1) \in Nat
          /\ S[n + 1] = S[n] + Gain(x[n + 1], n + 1)
          /\ T[n] \in Nat /\ T[n + 1] \in Nat /\ y[n + 1] \in Nat /\ Gain(y[n + 1], n + 1) \in Nat
          /\ T[n + 1] = T[n] + Gain(y[n + 1], n + 1)
      BY <2>3, <1>0 DEF AddsUp
    <3> QED
      BY <2>1, <3>1
  <2>4. Gain(x[m], m) <= Gain(u, m) /\ Ways(u, m) <= Gain(y[m], m)
    <3>1. m \in Nat
      OBVIOUS
    <3>2. Gain(x[m], m) <= Gain(u, m)
      BY <2>5, <3>1, GainGrows DEF FiresAt
    <3>3. Gain(u + 1, m) <= Gain(y[m], m)
      BY <2>3, <2>5, <3>1, GainGrows DEF FiresAt
    <3>4. Gain(u + 1, m) = Ways(u, m)
      BY <2>1, <1>a
    <3> QED
      BY <3>2, <3>3, <3>4
  <2>6. Ways(u, m) = Ways(u, n) + Gain(u, m) /\ Ways(u, n) \in Nat /\ Gain(u, m) \in Nat
    BY <2>1, <1>a
  <2>7. (S[n] + Gain(x[m], m)) + 1 <= T[n] + Gain(y[m], m)
    <3>1. Ways(u, n) + Gain(u, m) <= Gain(y[m], m)
      BY <2>4, <2>6
    <3> QED
      BY <2>2, <2>4, <2>5, <2>6, <3>1, LessIsPaid, Zenon
  <2>8. S[m] + 1 <= T[m]
    BY <2>5, <2>7, Zenon
  <2>9. S[m] \in Nat /\ T[m] \in Nat
    BY <2>5
  <2> QED
    BY <2>8, <2>9
<1> DEFINE Q == {d \in Nat : m + d <= k => S[m + d] + 1 <= T[m + d]}
<1>5. 0 \in Q
  <2>1. m + 0 = m
    OBVIOUS
  <2> QED
    BY <1>4, <2>1
<1>6. ASSUME NEW d \in Q PROVE d + 1 \in Q
  <2> SUFFICES ASSUME m + (d + 1) <= k PROVE S[m + (d + 1)] + 1 <= T[m + (d + 1)]
    OBVIOUS
  <2> DEFINE n == m + d
  <2>1. /\ n \in Nat /\ m + (d + 1) = n + 1 /\ n + 1 <= k /\ n + 1 \in m + 1 .. k
        /\ n + 1 \in Nat /\ S[n] + 1 <= T[n]
    OBVIOUS
  <2> HIDE DEF n
  <2>3. /\ S[n] \in Nat /\ S[n + 1] \in Nat /\ x[n + 1] \in Nat /\ Gain(x[n + 1], n + 1) \in Nat
        /\ S[n + 1] = S[n] + Gain(x[n + 1], n + 1)
        /\ T[n] \in Nat /\ T[n + 1] \in Nat /\ y[n + 1] \in Nat /\ Gain(y[n + 1], n + 1) \in Nat
        /\ T[n + 1] = T[n] + Gain(y[n + 1], n + 1)
    BY <2>1, <1>0 DEF AddsUp
  <2>2. Gain(x[n + 1], n + 1) <= Gain(y[n + 1], n + 1)
    <3>1. x[n + 1] <= y[n + 1]
      BY <2>1 DEF FiresAt
    <3> QED
      BY <2>1, <2>3, <3>1, GainGrows
  <2> QED
    <3> HIDE DEF P, Q
    <3>1. S[n] + 1 <= T[n]
      BY <2>1
    <3>2. (S[n] + Gain(x[n + 1], n + 1)) + 1 <= T[n] + Gain(y[n + 1], n + 1)
      BY <2>2, <2>3, <3>1, LessByOne, Zenon
    <3>4. S[n + 1] + 1 <= T[n + 1]
      BY <2>3, <3>2, Zenon
    <3>3. m + (d + 1) = n + 1
      BY <2>1
    <3> QED
      BY <3>3, <3>4
<1>7. Q = Nat
  <2> HIDE DEF Q
  <2>1. Q \subseteq Nat
    BY DEF Q
  <2> QED
    BY <1>5, <1>6, <2>1, NatInduct
<1>8. k - m \in Q /\ m + (k - m) = k
  <2>1. k - m \in Nat
    OBVIOUS
  <2> HIDE DEF Q
  <2> QED
    BY <1>7, <2>1
<1> QED
  BY <1>8

\* Some rank in A is the last.
LEMMA LastRank ==
  ASSUME NEW k \in Nat, NEW A \in SUBSET (1 .. k), A # {}
  PROVE  \E m \in A : \A j \in A : j <= m
<1> DEFINE P == {n \in Nat : (\E a \in A : a <= n) => \E m \in A : m <= n /\ \A j \in A : j <= n => j <= m}
<1>1. 0 \in P
  OBVIOUS
<1>2. ASSUME NEW n \in P PROVE n + 1 \in P
  <2>1. CASE n + 1 \in A
    BY <2>1
  <2>2. CASE n + 1 \notin A
    <3>1. \A j \in A : j <= n + 1 <=> j <= n
      BY <2>2
    <3> QED
      BY <3>1
  <2> QED
    BY <2>1, <2>2
<1>3. P = Nat
  <2> HIDE DEF P
  <2>1. P \subseteq Nat
    BY DEF P
  <2> QED
    BY <1>1, <1>2, <2>1, NatInduct
<1>4. k \in P
  <2> HIDE DEF P
  <2> QED
    BY <1>3
<1>5. \A j \in A : j <= k
  OBVIOUS
<1>6. (\E a \in A : a <= k) => \E m \in A : m <= k /\ \A j \in A : j <= k => j <= m
  BY <1>4
<1> HIDE DEF P
<1> QED
  BY <1>5, <1>6

\* How many invocations run at once.
Width == Cardinality(Invocations)

\* What the counter, or what an invocation has read of it, can be.
Flags == 1 .. FailNext \cup {NoFlag}

\* The faults that remain.
Left(n) == IF n = NoFlag THEN 0 ELSE n

\* What i can take from, when f is the counter and s[i] what i has read.
Takes(f, s, i) == IF Left(s[i]) >= Left(f) THEN Left(s[i]) ELSE Left(f)

\* The orders the invocations can be ranked in, and what each can take from.
Ranks == Bijection(1 .. Width, Invocations)

Worth(f, s, r) == [j \in 1 .. Width |-> Takes(f, s, r[j])]

\* However the invocations are ranked, n faults and those they may still add are b
\* at the most.
Room(f, s, n, b) ==
  \A r \in Ranks : \A S : IsSum(S, Width, Worth(f, s, r)) => n + S[Width] <= b

LEMMA WidthIs == Width \in Nat /\ Ranks # {}
BY FS_CardinalityType, ChaosAssumption DEF Width, Ranks, ExistsBijection

LEMMA RankIs ==
  ASSUME NEW r \in Ranks
  PROVE  /\ r \in [1 .. Width -> Invocations]
         /\ \A j, l \in 1 .. Width : r[j] = r[l] => j = l
         /\ \A i \in Invocations : \E j \in 1 .. Width : r[j] = i
BY DEF Ranks, Bijection, Injection, Surjection, IsInjective

LEMMA TakesIs ==
  ASSUME NEW f \in Flags, NEW s \in [Invocations -> Flags], NEW i \in Invocations
  PROVE  /\ Left(f) \in 0 .. FailNext /\ Left(s[i]) \in 0 .. FailNext
         /\ Takes(f, s, i) \in 0 .. FailNext
         /\ Left(s[i]) <= Takes(f, s, i) /\ Left(f) <= Takes(f, s, i)
         /\ Takes(f, s, i) = Left(s[i]) \/ Takes(f, s, i) = Left(f)
BY ChaosAssumption DEF Flags, Left, Takes

LEMMA WorthIs ==
  ASSUME NEW f \in Flags, NEW s \in [Invocations -> Flags], NEW r \in Ranks
  PROVE  /\ Worth(f, s, r) \in [1 .. Width -> Nat]
         /\ \A j \in 1 .. Width : /\ Worth(f, s, r)[j] = Takes(f, s, r[j])
                                  /\ Worth(f, s, r)[j] <= FailNext
<1>1. \A j \in 1 .. Width : r[j] \in Invocations
  BY RankIs
<1>2. \A j \in 1 .. Width : Takes(f, s, r[j]) \in 0 .. FailNext
  BY <1>1, TakesIs
<1>3. FailNext \in Nat
  BY ChaosAssumption
<1> QED
  BY <1>2, <1>3 DEF Worth

\* What a sum is.
LEMMA SumIs ==
  ASSUME NEW k \in Nat, NEW S, NEW x, IsSum(S, k, x) PROVE S[k] \in Nat
BY DEF IsSum

\* The most faults one order can turn into.
Span == Ways(FailNext, Width) - 1

LEMMA SpanIs == Span \in Nat
<1>1. FailNext \in Nat /\ Width \in Nat
  BY ChaosAssumption, WidthIs
<1>2. Ways(FailNext, Width) \in Nat \ {0}
  BY <1>1, Pascal
<1> QED
  BY <1>2 DEF Span

\* One order makes room for Span faults, whatever has been read or remains.
LEMMA OrderMakesRoom ==
  ASSUME NEW f \in Flags, NEW s \in [Invocations -> Flags], NEW n \in Nat, NEW b \in Nat, n <= b
  PROVE  Room(f, s, n, b + Span)
<1> SUFFICES ASSUME NEW r \in Ranks, NEW S, IsSum(S, Width, Worth(f, s, r))
             PROVE  n + S[Width] <= b + Span
  BY DEF Room
<1>1. FailNext \in Nat /\ Width \in Nat
  BY ChaosAssumption, WidthIs
<1>2. S[Width] + 1 <= Ways(FailNext, Width)
  BY <1>1, WorthIs, SumIsBounded
<1>3. S[Width] \in Nat /\ Ways(FailNext, Width) \in Nat
  BY <1>1, SumIs, Pascal
<1>4. S[Width] <= Span
  BY <1>2, <1>3 DEF Span
<1> QED
  BY <1>3, <1>4, SpanIs

\* Who can take no more than before leaves the room it was.
LEMMA RoomIsKept ==
  ASSUME NEW f \in Flags, NEW s \in [Invocations -> Flags],
         NEW g \in Flags, NEW t \in [Invocations -> Flags],
         \A i \in Invocations : Takes(g, t, i) <= Takes(f, s, i),
         NEW n \in Nat, NEW b \in Nat, Room(f, s, n, b)
  PROVE  Room(g, t, n, b)
<1> SUFFICES ASSUME NEW r \in Ranks, NEW S, IsSum(S, Width, Worth(g, t, r))
             PROVE  n + S[Width] <= b
  BY DEF Room
<1>1. Width \in Nat
  BY WidthIs
<1>2. /\ Worth(f, s, r) \in [1 .. Width -> Nat] /\ Worth(g, t, r) \in [1 .. Width -> Nat]
      /\ \A j \in 1 .. Width : Worth(g, t, r)[j] <= Worth(f, s, r)[j]
  <2>1. \A j \in 1 .. Width : r[j] \in Invocations
    BY RankIs
  <2> QED
    BY <2>1, WorthIs
<1>3. PICK T : IsSum(T, Width, Worth(f, s, r))
  BY <1>1, <1>2, SumExists
<1>4. S[Width] <= T[Width]
  BY <1>1, <1>2, <1>3, SumGrows
<1>5. n + T[Width] <= b
  BY <1>3 DEF Room
<1> QED
  BY <1>1, <1>3, <1>4, <1>5, SumIs

\* Two ranks change places.
LEMMA RanksSwap ==
  ASSUME NEW r \in Ranks, NEW a \in 1 .. Width, NEW m \in 1 .. Width
  PROVE  [j \in 1 .. Width |-> IF j = a THEN r[m] ELSE IF j = m THEN r[a] ELSE r[j]] \in Ranks
<1> DEFINE q == [j \in 1 .. Width |-> IF j = a THEN r[m] ELSE IF j = m THEN r[a] ELSE r[j]]
<1>1. q \in [1 .. Width -> Invocations]
  BY RankIs
<1>2. ASSUME NEW j \in 1 .. Width, NEW l \in 1 .. Width, q[j] = q[l] PROVE j = l
  BY <1>2, RankIs
<1>3. ASSUME NEW i \in Invocations PROVE \E j \in 1 .. Width : q[j] = i
  <2>1. PICK j \in 1 .. Width : r[j] = i
    BY RankIs
  <2>2. q[m] = r[a] /\ q[a] = r[m] /\ (j # a /\ j # m => q[j] = r[j])
    OBVIOUS
  <2> HIDE DEF q
  <2> QED
    BY <2>1, <2>2
<1> HIDE DEF q
<1>4. q \in Ranks
  BY <1>1, <1>2, <1>3 DEF Ranks, Bijection, Injection, Surjection, IsInjective
<1> QED
  BY <1>4 DEF q

\* A fault, and the count it leaves behind, which may be more than remained: it uses
\* up room for one.  The invocation that fires is ranked as the last of those left
\* with no more than that count.
LEMMA RoomIsUsed ==
  ASSUME NEW f \in Flags, NEW s \in [Invocations -> Flags],
         NEW i \in Invocations, s[i] # NoFlag,
         NEW n \in Nat, NEW b \in Nat, Room(f, s, n, b)
  PROVE  Room(OneLess(s[i]), [s EXCEPT ![i] = NoFlag], n + 1, b)
<1> DEFINE u == s[i] - 1
           g == OneLess(s[i])
           t == [s EXCEPT ![i] = NoFlag]
<1>1. /\ u \in Nat /\ Left(g) = u /\ g \in Flags /\ u + 1 = Left(s[i])
      /\ t \in [Invocations -> Flags] /\ Left(t[i]) = 0
      /\ \A l \in Invocations : l # i => t[l] = s[l]
  BY ChaosAssumption DEF Flags, Left, OneLess
<1> HIDE DEF u, g, t
<1>2. Takes(g, t, i) <= u /\ u + 1 <= Takes(f, s, i)
  <2>1. Takes(g, t, i) = Left(t[i]) \/ Takes(g, t, i) = Left(g)
    BY <1>1, TakesIs
  <2>2. Left(s[i]) <= Takes(f, s, i)
    BY TakesIs
  <2> QED
    BY <1>1, <2>1, <2>2
<1>3. ASSUME NEW l \in Invocations
      PROVE  Takes(g, t, l) <= u \/ Takes(g, t, l) <= Takes(f, s, l)
  <2>1. CASE l = i
    BY <1>2, <2>1
  <2>2. CASE l # i
    <3>1. Takes(g, t, l) = Left(s[l]) \/ Takes(g, t, l) = u
      BY <1>1, <2>2, TakesIs
    <3>2. Left(s[l]) <= Takes(f, s, l)
      BY TakesIs
    <3> QED
      BY <1>1, <3>1, <3>2
  <2> QED
    BY <2>1, <2>2
<1> SUFFICES ASSUME NEW r \in Ranks, NEW S, IsSum(S, Width, Worth(g, t, r))
             PROVE  n + 1 + S[Width] <= b
  BY DEF Room, g, t
<1>4. PICK a \in 1 .. Width : r[a] = i
  BY RankIs
<1>5. \A j \in 1 .. Width : r[j] \in Invocations
  BY RankIs
<1> DEFINE A == {j \in 1 .. Width : Takes(g, t, r[j]) <= u}
<1>6. PICK m \in A : \A j \in A : j <= m
  <2>1. A \in SUBSET (1 .. Width) /\ a \in A
    BY <1>2, <1>4
  <2> HIDE DEF A
  <2> QED
    BY <2>1, WidthIs, LastRank
<1>7. m \in 1 .. Width /\ Takes(g, t, r[m]) <= u /\ a <= m /\ Width \in Nat
  BY <1>2, <1>4, <1>6, WidthIs
<1>8. ASSUME NEW j \in m + 1 .. Width
      PROVE  j \in 1 .. Width /\ j # m /\ j # a /\ Takes(g, t, r[j]) <= Takes(f, s, r[j])
  <2>1. j \in 1 .. Width /\ j # m /\ j # a /\ ~ (j <= m)
    BY <1>4, <1>7
  <2>2. ~ (Takes(g, t, r[j]) <= u)
    BY <1>6, <2>1
  <2> QED
    BY <1>3, <1>5, <2>1, <2>2
<1> HIDE DEF A
<1> DEFINE q == [j \in 1 .. Width |-> IF j = a THEN r[m] ELSE IF j = m THEN r[a] ELSE r[j]]
<1>9. q \in Ranks
  BY <1>7, RanksSwap
<1>10. q[m] = i /\ \A j \in 1 .. Width : j # a /\ j # m => q[j] = r[j]
  BY <1>4, <1>7
<1> HIDE DEF q
<1> DEFINE x == Worth(g, t, r)
           y == Worth(f, s, q)
<1>11. /\ x \in [1 .. Width -> Nat] /\ y \in [1 .. Width -> Nat]
       /\ \A j \in 1 .. Width : x[j] = Takes(g, t, r[j]) /\ y[j] = Takes(f, s, q[j])
  BY <1>1, <1>9, WorthIs
<1> HIDE DEF x, y
<1>12. ASSUME NEW j \in 1 .. m - 1 PROVE x[j] <= u \/ x[j] <= y[j]
  <2>1. j \in 1 .. Width /\ j # m
    BY <1>7
  <2>2. CASE j = a
    BY <1>2, <1>4, <1>11, <2>2
  <2>3. CASE j # a
    <3>1. q[j] = r[j] /\ r[j] \in Invocations
      BY <1>5, <1>10, <2>1, <2>3
    <3>2. x[j] = Takes(g, t, r[j]) /\ y[j] = Takes(f, s, r[j])
      BY <1>11, <2>1, <3>1
    <3> QED
      BY <1>3, <3>1, <3>2
  <2> QED
    BY <2>2, <2>3
<1>13. x[m] <= u /\ u + 1 <= y[m]
  BY <1>2, <1>7, <1>10, <1>11
<1>14. ASSUME NEW j \in m + 1 .. Width PROVE x[j] <= y[j]
  BY <1>8, <1>10, <1>11
<1>15. FiresAt(m, u, Width, x, y)
  BY <1>12, <1>13, <1>14 DEF FiresAt
<1>16. PICK T : IsSum(T, Width, y)
  BY <1>7, <1>11, SumExists
<1>17. S[Width] + 1 <= T[Width]
  <2>1. IsSum(S, Width, x)
    BY DEF x
  <2> QED
    BY <1>1, <1>7, <1>11, <1>15, <1>16, <2>1, OneFires
<1>18. n + T[Width] <= b
  BY <1>9, <1>16 DEF Room, y
<1>19. S[Width] \in Nat /\ T[Width] \in Nat
  BY <1>7, <1>16, SumIs
<1> QED
  BY <1>17, <1>18, <1>19


\* There is room for the faults themselves.
LEMMA RoomBounds ==
  ASSUME NEW f \in Flags, NEW s \in [Invocations -> Flags], NEW n \in Nat, NEW b \in Nat, Room(f, s, n, b)
  PROVE  n <= b
<1>1. PICK r \in Ranks : TRUE
  BY WidthIs
<1>2. PICK S : IsSum(S, Width, Worth(f, s, r))
  BY WidthIs, WorthIs, SumExists
<1>3. n + S[Width] <= b /\ S[Width] \in Nat
  BY <1>2, WidthIs, SumIs DEF Room
<1> QED
  BY <1>3

\* The orders and the lost writes so far leave room for the faults fired and for
\* all that what has been read and what remains can still be turned into.
RaceInv ==
  /\ flag \in Flags
  /\ saw \in [Invocations -> Flags]
  /\ arms \in Nat /\ lost \in Nat /\ faults \in Nat
  /\ Room(flag, saw, faults, arms * Span + lost)

LEMMA RaceInitInv == ChaosInit => RaceInv
<1> SUFFICES ASSUME ChaosInit PROVE RaceInv
  OBVIOUS
<1>1. /\ flag \in Flags /\ saw \in [Invocations -> Flags] /\ arms * Span + lost = 0
      /\ arms = 0 /\ lost = 0 /\ faults = 0 /\ \A i \in Invocations : Takes(flag, saw, i) = 0
  BY SpanIs DEF ChaosInit, Flags, Takes, Left
<1>2. ASSUME NEW r \in Ranks, NEW S, IsSum(S, Width, Worth(flag, saw, r)) PROVE 0 + S[Width] <= 0
  <2>1. Worth(flag, saw, r) \in [1 .. Width -> Nat] /\ \A j \in 1 .. Width : Worth(flag, saw, r)[j] <= 0
    <3>1. \A j \in 1 .. Width : r[j] \in Invocations
      BY RankIs
    <3>2. \A j \in 1 .. Width : Worth(flag, saw, r)[j] = Takes(flag, saw, r[j])
      BY <1>1, WorthIs
    <3>3. \A j \in 1 .. Width : Worth(flag, saw, r)[j] <= 0
      BY <1>1, <3>1, <3>2
    <3> QED
      BY <1>1, <3>3, WorthIs
  <2>2. S[Width] + 1 <= Ways(0, Width) /\ Ways(0, Width) = 1 /\ S[Width] \in Nat
    BY <1>2, <2>1, WidthIs, SumIsBounded, SumIs, Pascal
  <2> QED
    BY <2>2
<1>3. Room(flag, saw, 0, 0)
  BY <1>2 DEF Room
<1> QED
  BY <1>1, <1>3 DEF RaceInv

LEMMA RaceStep == RaceInv /\ [ChaosNext]_chaosVars => RaceInv'
<1> SUFFICES ASSUME RaceInv, [ChaosNext]_chaosVars PROVE RaceInv'
  OBVIOUS
<1> DEFINE b == arms * Span + lost
<1>0. /\ flag \in Flags /\ saw \in [Invocations -> Flags]
      /\ arms \in Nat /\ lost \in Nat /\ faults \in Nat /\ arms * Span \in Nat /\ b \in Nat
      /\ Room(flag, saw, faults, b)
  BY SpanIs DEF RaceInv
<1>a. faults <= b
  <2> HIDE DEF b
  <2> QED
    BY <1>0, RoomBounds
<1>b. NoFlag \in Flags /\ \A i \in Invocations : [saw EXCEPT ![i] = NoFlag] \in [Invocations -> Flags]
  BY <1>0 DEF Flags
<1>1. ASSUME NEW n \in 1 .. FailNext, Arm(n) PROVE RaceInv'
  <2>1. arms' = arms + 1 /\ flag' = n /\ UNCHANGED <<saw, lost, faults>>
    BY <1>1 DEF Arm
  <2>2. arms' * Span + lost' = b + Span
    BY <1>0, <2>1, SpanIs
  <2>3. flag' \in Flags
    BY <2>1 DEF Flags
  <2>4. Room(flag', saw', faults', b + Span)
    <3> HIDE DEF b
    <3> QED
      BY <1>0, <1>a, <2>1, <2>3, OrderMakesRoom
  <2> HIDE DEF b
  <2> QED
    BY <1>0, <2>1, <2>2, <2>3, <2>4 DEF RaceInv
<1>2. ASSUME NEW f \in Flags, NEW t \in [Invocations -> Flags],
             \A i \in Invocations : Takes(f, t, i) <= Takes(flag, saw, i),
             flag' = f, saw' = t, UNCHANGED <<arms, lost, faults>>
      PROVE  RaceInv'
  <2>1. Room(f, t, faults, b)
    <3> HIDE DEF b
    <3> QED
      BY <1>0, <1>2, RoomIsKept
  <2> QED
    BY <1>0, <1>2, <2>1 DEF RaceInv
<1>3. ASSUME NEW i \in Invocations
      PROVE  /\ saw[i] = NoFlag =>
                  \A l \in Invocations : Takes(flag, [saw EXCEPT ![i] = flag], l) <= Takes(flag, saw, l)
             /\ \A l \in Invocations : Takes(flag, [saw EXCEPT ![i] = NoFlag], l) <= Takes(flag, saw, l)
  BY <1>0, ChaosAssumption DEF Takes, Left, Flags
<1>4. ASSUME NEW i \in Invocations, ReadFlag(i) PROVE RaceInv'
  <2>1. /\ saw[i] = NoFlag /\ saw' = [saw EXCEPT ![i] = flag] /\ UNCHANGED <<flag, arms, lost, faults>>
        /\ [saw EXCEPT ![i] = flag] \in [Invocations -> Flags]
    BY <1>0, <1>4 DEF ReadFlag
  <2> QED
    BY <1>0, <1>2, <1>3, <2>1
<1>5. ASSUME NEW i \in Invocations, DiesArmed(i) PROVE RaceInv'
  <2>1. saw' = [saw EXCEPT ![i] = NoFlag] /\ UNCHANGED <<flag, arms, lost, faults>>
    BY <1>5 DEF DiesArmed
  <2> QED
    BY <1>0, <1>b, <1>2, <1>3, <2>1
<1>6. ASSUME NEW i \in Invocations, FireUncounted(i) PROVE RaceInv'
  <2>1. /\ saw' = [saw EXCEPT ![i] = NoFlag] /\ UNCHANGED <<flag, arms>>
        /\ lost' = lost + 1 /\ faults' = faults + 1
    BY <1>6 DEF FireUncounted
  <2>2. Room(flag, saw', faults, b)
    <3> HIDE DEF b
    <3> QED
      BY <1>0, <1>b, <1>3, <2>1, RoomIsKept
  <2>3. Room(flag, saw', faults + 1, b + 1)
    <3> SUFFICES ASSUME NEW r \in Ranks, NEW S, IsSum(S, Width, Worth(flag, saw', r))
                 PROVE  (faults + 1) + S[Width] <= b + 1
      BY DEF Room
    <3>1. faults + S[Width] <= b /\ S[Width] \in Nat
      BY <2>2, WidthIs, SumIs DEF Room
    <3> HIDE DEF b
    <3> QED
      BY <1>0, <3>1
  <2>4. arms' * Span + lost' = b + 1
    BY <1>0, <2>1
  <2> HIDE DEF b
  <2> QED
    BY <1>0, <1>b, <2>1, <2>3, <2>4 DEF RaceInv
<1>7. ASSUME NEW i \in Invocations, Fire(i) PROVE RaceInv'
  <2>1. /\ saw[i] # NoFlag /\ flag' = OneLess(saw[i]) /\ saw' = [saw EXCEPT ![i] = NoFlag]
        /\ faults' = faults + 1 /\ UNCHANGED <<arms, lost>>
    BY <1>7 DEF Fire
  <2>2. Room(flag', saw', faults', b)
    <3> HIDE DEF b
    <3> QED
      BY <1>0, <2>1, RoomIsUsed
  <2>3. flag' \in Flags
    BY <1>0, <2>1, ChaosAssumption DEF OneLess, Flags
  <2> QED
    BY <1>0, <1>b, <2>1, <2>2, <2>3 DEF RaceInv
<1>8. CASE FlagExpires
  <2>1. flag' = NoFlag /\ UNCHANGED <<saw, arms, lost, faults>>
    BY <1>8 DEF FlagExpires
  <2>2. \A l \in Invocations : Takes(NoFlag, saw, l) <= Takes(flag, saw, l)
    BY <1>0, ChaosAssumption DEF Takes, Left, Flags
  <2> QED
    BY <1>0, <1>b, <1>2, <2>1, <2>2
<1>9. CASE UNCHANGED chaosVars
  BY <1>0, <1>9 DEF chaosVars, RaceInv
<1> QED
  BY <1>1, <1>4, <1>5, <1>6, <1>7, <1>8, <1>9 DEF ChaosNext, InvocationNext

\* maybeInjectChaos, however many invocations read the counter before either writes
\* it back: k at once turn each order for n faults into at most C(n + k, k) - 1, and
\* each failed write adds one, whatever expires, dies or is armed anew meanwhile.
THEOREM RacingFaultsAreCounted ==
  ChaosSpec => [](faults <= arms * (choose(FailNext + Width, Width) - 1) + lost)
<1>1. RaceInv => faults <= arms * (choose(FailNext + Width, Width) - 1) + lost
  <2> SUFFICES ASSUME RaceInv PROVE faults <= arms * Span + lost
    BY DEF Span, Ways
  <2>1. arms * Span + lost \in Nat
    BY SpanIs DEF RaceInv
  <2> QED
    BY <2>1, RoomBounds DEF RaceInv
<1> QED
  BY RaceInitInv, RaceStep, <1>1, PTL DEF ChaosSpec

\* One order and no failed write: C(n + k, k) - 1 faults at most.  It is reached: an
\* order for two faults gives nine when three invocations overlap.
THEOREM RacingFaultsAreBounded == ChaosSpec => []FaultsAreBounded
<1>1. RaceInv => FaultsAreBounded
  <2> SUFFICES ASSUME RaceInv, arms <= 1, lost = 0
               PROVE  faults + 1 <= choose(FailNext + Width, Width)
    BY DEF FaultsAreBounded, Width
  <2>1. arms * Span + lost \in Nat /\ faults \in Nat /\ arms \in Nat
    BY SpanIs DEF RaceInv
  <2>2. faults <= arms * Span + lost
    BY <2>1, RoomBounds DEF RaceInv
  <2>3. arms * Span + lost <= Span
    <3>1. arms = 0 \/ arms = 1
      BY <2>1
    <3> QED
      BY <3>1, SpanIs
  <2>4. Ways(FailNext, Width) \in Nat
    BY ChaosAssumption, WidthIs, Pascal
  <2> QED
    BY <2>1, <2>2, <2>3, <2>4, SpanIs DEF Span, Ways
<1> QED
  BY RaceInitInv, RaceStep, <1>1, PTL DEF ChaosSpec

\* maybeInjectChaos, "we may fire chaos one extra time": where invocations do not
\* overlap, each order is good for its count of faults and each failed write for
\* one more.
THEOREM SerialFaultsAreCounted ==
  ASSUME \A i, j \in Invocations : i = j
  PROVE  ChaosSpec => [](faults <= arms * FailNext + lost)
<1>1. Span <= FailNext
  <2>1. Width = 0 \/ Width = 1
    <3>1. CASE Invocations = {}
      BY <3>1, FS_EmptySet DEF Width
    <3>2. CASE Invocations # {}
      <4>1. PICK i \in Invocations : TRUE
        BY <3>2
      <4>2. Invocations = {i}
        BY <4>1
      <4> QED
        BY <4>2, FS_Singleton DEF Width
    <3> QED
      BY <3>1, <3>2
  <2>2. FailNext \in Nat /\ Ways(FailNext, 0) = 1
    BY ChaosAssumption, Pascal
  <2>3. Ways(FailNext, 1) = FailNext + 1
    <3>1. FailNext + 1 \in Nat /\ factorial[FailNext] \in Nat
      BY <2>2, FactorialNat
    <3>2. factorial[1] = 1
      <4>1. factorial[0 + 1] = (0 + 1) * factorial[0] /\ factorial[0] = 1
        BY FactorialDef
      <4> QED
        BY <4>1
    <3>3. factorial[FailNext + 1] = (FailNext + 1) * factorial[FailNext]
      BY <2>2, FactorialDef
    <3>4. factorial[FailNext + 1] = (FailNext + 1) * (factorial[1] * factorial[FailNext])
      BY <3>1, <3>2, <3>3
    <3> QED
      BY <2>2, <3>1, <3>4, WaysIs
  <2> QED
    BY <2>1, <2>2, <2>3 DEF Span
<1>2. RaceInv => faults <= arms * FailNext + lost
  <2> SUFFICES ASSUME RaceInv PROVE faults <= arms * FailNext + lost
    OBVIOUS
  <2>1. arms * Span + lost \in Nat /\ faults \in Nat /\ arms \in Nat /\ lost \in Nat
    BY SpanIs DEF RaceInv
  <2>2. faults <= arms * Span + lost
    BY <2>1, RoomBounds DEF RaceInv
  <2>3. arms * Span <= arms * FailNext
    BY <1>1, <2>1, SpanIs, ChaosAssumption
  <2>4. arms * FailNext \in Nat /\ arms * Span \in Nat
    BY <2>1, SpanIs, ChaosAssumption
  <2> QED
    BY <2>1, <2>2, <2>3, <2>4
<1> QED
  BY RaceInitInv, RaceStep, <1>2, PTL DEF ChaosSpec

-----------------------------------------------------------------------------
(* The live panels. *)

\* The polls under way during version v and the effect's run g: what they have
\* read is no newer than the source.
Polls(g, v) == [gen : 0 .. g, key : Secrets \cup {NoSecret}, read : Seq(0 .. v)]

PanelInv ==
  /\ PanelTypeOK
  /\ flight = [k \in Flights |-> flight[k]]
  /\ \A k \in Flights : flight[k] # NoFlight => flight[k] \in Polls(gen, version)
  /\ edge # NoVersion => edge <= version
  /\ shown.read \in Seq(0 .. version)
  /\ BusyMeansCall

\* A panel that needs no secret has one effect until the page is reloaded, and a
\* reload leaves no poll under way.
OneEffect ==
  panel \notin Gated => \A k \in Flights : flight[k] # NoFlight => flight[k].gen = gen

LEMMA StatementsAreFew ==
  ASSUME NEW p \in Panels
  PROVE  Statements[p] \in Nat \ {0} /\ (p \in Shared => Statements[p] = 1)
BY DEF Panels, Shared, Statements

LEMMA PollsLast ==
  ASSUME NEW g \in Nat, NEW h \in Nat, NEW v \in Nat, NEW w \in Nat, g <= h, v <= w
  PROVE  Polls(g, v) \subseteq Polls(h, w) /\ Seq(0 .. v) \subseteq Seq(0 .. w)
<1>1. 0 .. v \subseteq 0 .. w /\ 0 .. g \subseteq 0 .. h
  OBVIOUS
<1>2. ASSUME NEW q \in Seq(0 .. v) PROVE q \in Seq(0 .. w)
  <2>1. \A i \in 1 .. Len(q) : q[i] \in 0 .. w
    BY <1>1, <1>2
  <2> QED
    BY <2>1, <1>2
<1> QED
  BY <1>1, <1>2 DEF Polls

LEMMA PanelInitInv == PanelInit => PanelInv /\ OneEffect
<1> SUFFICES ASSUME PanelInit PROVE PanelInv /\ OneEffect
  OBVIOUS
<1>1. PanelTypeOK
  BY PanelsAssumption DEF PanelInit, PanelTypeOK
<1>2. flight = [k \in Flights |-> flight[k]] /\ \A k \in Flights : flight[k] = NoFlight
  BY DEF PanelInit
<1>3. shown.read \in Seq(0 .. version)
  BY DEF PanelInit
<1>4. BusyMeansCall
  <2>1. busy = FALSE /\ (calls > 0) = FALSE
    BY DEF PanelInit
  <2> QED
    BY <2>1, Zenon DEF BusyMeansCall
<1>5. edge = NoVersion
  BY DEF PanelInit
<1> QED
  BY <1>1, <1>2, <1>3, <1>4, <1>5 DEF PanelInv, OneEffect

\* A step that leaves the polls alone, but for some that end, and does not turn the
\* clock back.
LEMMA FlightsEnd ==
  ASSUME PanelInv, UNCHANGED panel, gen' \in 0 .. MaxGens, gen <= gen',
         version' \in 0 .. MaxVersion, version <= version',
         flight' = [k \in Flights |-> flight'[k]],
         \A k \in Flights : flight'[k] \in {flight[k], NoFlight}
  PROVE  /\ DOMAIN flight' = Flights
         /\ \A k \in Flights : flight'[k] # NoFlight =>
              /\ flight'[k] \in Polls(gen', version')
              /\ flight'[k].gen \in 0 .. gen'
              /\ flight'[k].read \in Seq(0 .. version')
              /\ Len(flight'[k].read) <= Statements[panel']
<1>1. Polls(gen, version) \subseteq Polls(gen', version')
  BY PollsLast, PanelsAssumption DEF PanelInv, PanelTypeOK
<1>2. DOMAIN flight' = Flights
  OBVIOUS
<1>3. ASSUME NEW k \in Flights, flight'[k] # NoFlight
      PROVE  /\ flight'[k] \in Polls(gen', version')
             /\ flight'[k].gen \in 0 .. gen'
             /\ flight'[k].read \in Seq(0 .. version')
             /\ Len(flight'[k].read) <= Statements[panel']
  <2>1. flight'[k] = flight[k]
    BY <1>3
  <2>2. flight[k] \in Polls(gen, version) /\ Len(flight[k].read) <= Statements[panel]
    BY <1>3, <2>1 DEF PanelInv, PanelTypeOK
  <2>3. flight'[k] \in Polls(gen', version')
    BY <1>1, <2>1, <2>2
  <2>4. flight'[k].gen \in 0 .. gen' /\ flight'[k].read \in Seq(0 .. version')
    BY <2>3 DEF Polls
  <2> QED
    BY <2>1, <2>2, <2>3, <2>4
<1> QED
  BY <1>2, <1>3

\* The same of a step that sets poll j to p.
LEMMA FlightSet ==
  ASSUME PanelInv, UNCHANGED <<panel, gen, version>>, NEW j \in Flights,
         NEW p \in Polls(gen, version), Len(p.read) <= Statements[panel],
         flight' = [flight EXCEPT ![j] = p]
  PROVE  /\ flight' = [k \in Flights |-> flight'[k]]
         /\ DOMAIN flight' = Flights
         /\ \A k \in Flights : flight'[k] # NoFlight =>
              /\ flight'[k] \in Polls(gen', version')
              /\ flight'[k].gen \in 0 .. gen'
              /\ flight'[k].read \in Seq(0 .. version')
              /\ Len(flight'[k].read) <= Statements[panel']
<1>1. DOMAIN flight = Flights /\ flight' = [k \in Flights |-> IF k = j THEN p ELSE flight[k]]
  BY DEF PanelInv, PanelTypeOK
<1>2. p.gen \in 0 .. gen /\ p.read \in Seq(0 .. version)
  BY DEF Polls
<1>3. \A k \in Flights : flight[k] # NoFlight =>
        /\ flight[k] \in Polls(gen, version)
        /\ flight[k].gen \in 0 .. gen
        /\ flight[k].read \in Seq(0 .. version)
        /\ Len(flight[k].read) <= Statements[panel]
  BY DEF PanelInv, PanelTypeOK
<1> QED
  BY <1>1, <1>2, <1>3

\* The buttons are taken one call at a time, and every end of a call frees them.
LEMMA BusyStep ==
  PanelTypeOK /\ BusyMeansCall /\ [PanelNext]_panelVars => calls' \in {0, 1} /\ BusyMeansCall'
<1> SUFFICES ASSUME PanelTypeOK, BusyMeansCall, [PanelNext]_panelVars
             PROVE  calls' \in {0, 1} /\ BusyMeansCall'
  OBVIOUS
<1>0. calls \in {0, 1}
  BY DEF PanelTypeOK
<1>1. CASE Press
  <2>1. calls = 0
    <3>1. busy = FALSE
      BY <1>1 DEF Press, Pressable, BusyMeansCall
    <3>2. ~(calls > 0)
      BY <3>1 DEF BusyMeansCall
    <3> QED
      BY <1>0, <3>2
  <2>2. calls' = 1 /\ (calls' > 0) = TRUE
    BY <1>1, <2>1 DEF Press
  <2>3. busy' = TRUE
    BY <1>1 DEF Press
  <2>4. BusyMeansCall'
    BY <2>2, <2>3, Zenon DEF BusyMeansCall
  <2> QED
    BY <2>2, <2>4
<1>2. CASE CallEnds \/ Reload
  <2>1. calls' = 0 /\ (calls' > 0) = FALSE
    BY <1>0, <1>2 DEF CallEnds, Reload
  <2>2. busy' = FALSE
    BY <1>2 DEF CallEnds, Reload
  <2>3. BusyMeansCall'
    BY <2>1, <2>2, Zenon DEF BusyMeansCall
  <2> QED
    BY <2>1, <2>3
<1>3. ASSUME UNCHANGED callVars PROVE calls' \in {0, 1} /\ BusyMeansCall'
  BY <1>0, <1>3, Zenon DEF callVars, BusyMeansCall
<1>4. ASSUME NEW k \in Flights, Poll(k) \/ FlightNext(k) PROVE UNCHANGED callVars
  BY <1>4 DEF Poll, FlightNext, ReadGated, ReadShared, Show, Ignore, callVars
<1>5. ASSUME NEW x \in Secrets \cup {NoSecret}, EditSecret(x) PROVE UNCHANGED callVars
  BY <1>5 DEF EditSecret, callVars
<1>6. CASE SourceChanges \/ EdgeRefreshes \/ UNCHANGED panelVars
  BY <1>3, <1>6 DEF SourceChanges, EdgeRefreshes, panelVars, callVars
<1> QED
  BY <1>1, <1>2, <1>3, <1>4, <1>5, <1>6 DEF PanelNext

\* The counters, the secret and what the CDN keeps.
LEMMA PageStep ==
  PanelInv /\ [PanelNext]_panelVars =>
    /\ panel' = panel
    /\ version' \in 0 .. MaxVersion /\ version <= version'
    /\ edge' \in 0 .. MaxVersion \cup {NoVersion}
    /\ edge' # NoVersion => edge' <= version'
    /\ {secret', saved'} \subseteq Secrets \cup {NoSecret}
    /\ gen' \in 0 .. MaxGens /\ gen <= gen'
    /\ fails' \in 0 .. MaxFails
<1> DEFINE Page ==
      /\ panel' = panel
      /\ version' \in 0 .. MaxVersion /\ version <= version'
      /\ edge' \in 0 .. MaxVersion \cup {NoVersion}
      /\ edge' # NoVersion => edge' <= version'
      /\ {secret', saved'} \subseteq Secrets \cup {NoSecret}
      /\ gen' \in 0 .. MaxGens /\ gen <= gen'
      /\ fails' \in 0 .. MaxFails
<1> SUFFICES ASSUME PanelInv, [PanelNext]_panelVars PROVE Page
  OBVIOUS
<1>0. /\ version \in 0 .. MaxVersion
      /\ edge \in 0 .. MaxVersion \cup {NoVersion}
      /\ edge # NoVersion => edge <= version
      /\ {secret, saved} \subseteq Secrets \cup {NoSecret}
      /\ gen \in 0 .. MaxGens
      /\ fails \in 0 .. MaxFails
      /\ MaxVersion \in Nat /\ MaxGens \in Nat /\ MaxFails \in Nat /\ NoVersion \notin Nat
  BY PanelsAssumption DEF PanelInv, PanelTypeOK
<1>1. ASSUME NEW x \in Secrets \cup {NoSecret}, EditSecret(x) PROVE Page
  BY <1>0, <1>1 DEF EditSecret, pollVars
<1>2. CASE Reload \/ SourceChanges \/ EdgeRefreshes
  BY <1>0, <1>2 DEF Reload, SourceChanges, EdgeRefreshes, pollVars, pageVars
<1>3. CASE Press \/ CallEnds \/ UNCHANGED panelVars
  BY <1>0, <1>3 DEF Press, CallEnds, panelVars, pollVars, pageVars
<1>4. ASSUME NEW k \in Flights, Poll(k) \/ FlightNext(k) PROVE Page
  <2>1. CASE Poll(k) \/ ReadGated(k) \/ Show(k) \/ Ignore(k)
    BY <1>0, <2>1 DEF Poll, ReadGated, Show, Ignore, pageVars
  <2>2. CASE ReadShared(k)
    BY <1>0, <2>2 DEF ReadShared, pageVars
  <2> QED
    BY <1>4, <2>1, <2>2 DEF FlightNext
<1> QED
  BY <1>1, <1>2, <1>3, <1>4 DEF PanelNext

\* A poll reads its endpoint's statements in order, each at the version of its moment.
FlightsTyped ==
  /\ flight = [k \in Flights |-> flight[k]]
  /\ DOMAIN flight = Flights
  /\ \A k \in Flights : flight[k] # NoFlight =>
       /\ flight[k] \in Polls(gen, version)
       /\ flight[k].gen \in 0 .. gen
       /\ flight[k].read \in Seq(0 .. version)
       /\ Len(flight[k].read) <= Statements[panel]

LEMMA FlightStep == PanelInv /\ [PanelNext]_panelVars => FlightsTyped'
<1> SUFFICES ASSUME PanelInv, [PanelNext]_panelVars PROVE FlightsTyped'
  OBVIOUS
<1>0. /\ panel \in Panels /\ version \in Nat /\ gen \in Nat
      /\ secret \in Secrets \cup {NoSecret}
      /\ edge # NoVersion => edge \in 0 .. version
      /\ flight = [k \in Flights |-> flight[k]]
      /\ \A k \in Flights : flight[k] # NoFlight =>
           flight[k] \in Polls(gen, version) /\ Len(flight[k].read) <= Statements[panel]
  BY PanelsAssumption DEF PanelInv, PanelTypeOK
<1>1. ASSUME flight' = [k \in Flights |-> flight'[k]],
             \A k \in Flights : flight'[k] \in {flight[k], NoFlight}
      PROVE  FlightsTyped'
  BY <1>1, PageStep, FlightsEnd DEF FlightsTyped
<1>2. ASSUME UNCHANGED flight PROVE FlightsTyped'
  BY <1>0, <1>1, <1>2
<1>3. CASE Reload
  BY <1>1, <1>3 DEF Reload
<1>4. ASSUME NEW k \in Flights, Show(k) \/ Ignore(k) PROVE FlightsTyped'
  <2>1. flight' = [flight EXCEPT ![k] = NoFlight]
    BY <1>4 DEF Show, Ignore, Land
  <2> QED
    BY <1>0, <1>1, <2>1
<1>5. ASSUME NEW k \in Flights, Poll(k) PROVE FlightsTyped'
  <2> DEFINE p == [gen |-> gen, key |-> secret, read |-> <<>>]
  <2>1. p \in Polls(gen, version)
    BY <1>0 DEF Polls
  <2>2. Len(p.read) <= Statements[panel]
    BY <1>0, StatementsAreFew
  <2>3. flight' = [flight EXCEPT ![k] = p] /\ UNCHANGED <<panel, gen, version>>
    BY <1>5 DEF Poll, pageVars
  <2> HIDE DEF p
  <2> QED
    BY <2>1, <2>2, <2>3, FlightSet DEF FlightsTyped
<1>6. ASSUME NEW k \in Flights, NEW v \in 0 .. version, flight[k] # NoFlight,
             Len(flight[k].read) < Statements[panel], Reads(k, v),
             UNCHANGED <<panel, gen, version>>
      PROVE  FlightsTyped'
  <2> DEFINE p == [flight[k] EXCEPT !.read = Append(@, v)]
  <2>1. flight[k] \in Polls(gen, version)
    BY <1>0, <1>6
  <2>2. /\ Append(flight[k].read, v) \in Seq(0 .. version)
        /\ Len(Append(flight[k].read, v)) = Len(flight[k].read) + 1
        /\ Len(flight[k].read) \in Nat
    BY <2>1 DEF Polls
  <2>3. p \in Polls(gen, version) /\ p.read = Append(flight[k].read, v)
    BY <2>1, <2>2 DEF Polls
  <2>4. Len(p.read) <= Statements[panel]
    BY <1>0, <1>6, <2>2, <2>3, StatementsAreFew
  <2>5. flight' = [flight EXCEPT ![k] = p]
    BY <1>6 DEF Reads
  <2> HIDE DEF p
  <2> QED
    BY <1>6, <2>3, <2>4, <2>5, FlightSet DEF FlightsTyped
<1>7. ASSUME NEW k \in Flights, ReadGated(k) PROVE FlightsTyped'
  BY <1>0, <1>6, <1>7 DEF ReadGated, pageVars
<1>8. ASSUME NEW k \in Flights, ReadShared(k) PROVE FlightsTyped'
  <2>1. Len(flight[k].read) < Statements[panel]
    BY <1>0, <1>8, StatementsAreFew DEF ReadShared
  <2>2. \E v \in 0 .. version : Reads(k, v)
    BY <1>0, <1>8 DEF ReadShared
  <2>3. flight[k] # NoFlight /\ UNCHANGED <<panel, gen, version>>
    BY <1>8 DEF ReadShared, pageVars
  <2> QED
    BY <1>6, <2>1, <2>2, <2>3
<1>9. ASSUME NEW x \in Secrets \cup {NoSecret}, EditSecret(x) PROVE FlightsTyped'
  BY <1>2, <1>9 DEF EditSecret, pollVars
<1>10. CASE Press \/ CallEnds \/ SourceChanges \/ EdgeRefreshes \/ UNCHANGED panelVars
  BY <1>2, <1>10 DEF Press, CallEnds, SourceChanges, EdgeRefreshes, panelVars, pollVars
<1> QED
  BY <1>3, <1>4, <1>5, <1>7, <1>8, <1>9, <1>10 DEF PanelNext, FlightNext

\* A panel shows whole answers, of this effect run or an earlier one.
ShownTyped ==
  /\ shown.gen \in 0 .. gen
  /\ shown.read # <<>> => Len(shown.read) = Statements[panel]
  /\ shown.read \in Seq(0 .. version)

LEMMA ShownStep == PanelInv /\ [PanelNext]_panelVars => ShownTyped'
<1> SUFFICES ASSUME PanelInv, [PanelNext]_panelVars PROVE ShownTyped'
  OBVIOUS
<1>0. /\ version \in Nat /\ gen \in Nat /\ ShownTyped
      /\ \A k \in Flights : flight[k] # NoFlight => flight[k] \in Polls(gen, version)
  BY PanelsAssumption DEF PanelInv, PanelTypeOK, ShownTyped
<1>1. /\ panel' = panel /\ gen' \in Nat /\ gen <= gen'
      /\ version' \in Nat /\ version <= version'
  BY PageStep, PanelsAssumption
<1>2. ASSUME UNCHANGED shown PROVE ShownTyped'
  <2>1. Seq(0 .. version) \subseteq Seq(0 .. version')
    BY <1>0, <1>1, PollsLast
  <2> QED
    BY <1>0, <1>1, <1>2, <2>1 DEF ShownTyped
<1>3. CASE Reload
  BY <1>1, <1>3 DEF Reload, ShownTyped
<1>4. ASSUME NEW k \in Flights, Show(k) PROVE ShownTyped'
  <2>1. CASE Alive(flight[k])
    <3>1. /\ flight[k].gen \in 0 .. gen /\ flight[k].read \in Seq(0 .. version)
          /\ Len(flight[k].read) = Statements[panel]
      BY <1>0, <1>4 DEF Show, Polls
    <3>2. UNCHANGED <<panel, gen, version>>
      BY <1>4 DEF Show, pageVars
    <3>3. shown'.gen = flight[k].gen /\ shown'.read = flight[k].read
      BY <1>4, <2>1 DEF Show
    <3> QED
      BY <3>1, <3>2, <3>3 DEF ShownTyped
  <2>2. CASE ~Alive(flight[k])
    BY <1>2, <1>4, <2>2 DEF Show
  <2> QED
    BY <2>1, <2>2
<1>5. ASSUME NEW k \in Flights, Poll(k) \/ ReadGated(k) \/ ReadShared(k) \/ Ignore(k)
      PROVE  ShownTyped'
  BY <1>2, <1>5 DEF Poll, ReadGated, ReadShared, Ignore
<1>6. ASSUME NEW x \in Secrets \cup {NoSecret}, EditSecret(x) PROVE ShownTyped'
  BY <1>2, <1>6 DEF EditSecret, pollVars
<1>7. CASE Press \/ CallEnds \/ SourceChanges \/ EdgeRefreshes \/ UNCHANGED panelVars
  BY <1>2, <1>7 DEF Press, CallEnds, SourceChanges, EdgeRefreshes, panelVars, pollVars
<1> QED
  BY <1>3, <1>4, <1>5, <1>6, <1>7 DEF PanelNext, FlightNext

LEMMA PanelStep == PanelInv /\ [PanelNext]_panelVars => PanelInv'
<1> SUFFICES ASSUME PanelInv, [PanelNext]_panelVars PROVE PanelInv'
  OBVIOUS
<1>1. panel' \in Panels /\ calls' \in {0, 1} /\ BusyMeansCall'
  BY PageStep, BusyStep DEF PanelInv, PanelTypeOK
<1>2. FlightsTyped' /\ ShownTyped'
  BY FlightStep, ShownStep
<1>3. PanelTypeOK'
  BY <1>1, <1>2, PageStep DEF PanelTypeOK, FlightsTyped, ShownTyped
<1> QED
  BY <1>1, <1>2, <1>3, PageStep DEF PanelInv, FlightsTyped, ShownTyped

LEMMA EffectStep == PanelInv /\ OneEffect /\ [PanelNext]_panelVars => OneEffect'
<1> SUFFICES ASSUME PanelInv, OneEffect, [PanelNext]_panelVars, panel \notin Gated
             PROVE  \A k \in Flights : flight'[k] # NoFlight => flight'[k].gen = gen'
  BY PageStep DEF OneEffect
<1>0. /\ DOMAIN flight = Flights
      /\ \A k \in Flights : flight[k] # NoFlight =>
           flight[k] \in Polls(gen, version) /\ flight[k].gen = gen
  BY DEF PanelInv, PanelTypeOK, OneEffect
<1>1. CASE Reload
  BY <1>1 DEF Reload
<1>2. ASSUME NEW k \in Flights, Poll(k) \/ Show(k) \/ Ignore(k)
      PROVE  \A j \in Flights : flight'[j] # NoFlight => flight'[j].gen = gen'
  BY <1>0, <1>2 DEF Poll, Show, Ignore, Land, pageVars
<1>3. ASSUME NEW k \in Flights, NEW v, flight[k] # NoFlight, Reads(k, v), UNCHANGED gen
      PROVE  \A j \in Flights : flight'[j] # NoFlight => flight'[j].gen = gen'
  <2>1. flight' = [flight EXCEPT ![k] = [flight[k] EXCEPT !.read = Append(@, v)]]
    BY <1>3 DEF Reads
  <2>2. [flight[k] EXCEPT !.read = Append(@, v)].gen = gen
    BY <1>0, <1>3 DEF Polls
  <2> QED
    BY <1>0, <1>3, <2>1, <2>2
<1>4. ASSUME NEW k \in Flights, ReadShared(k)
      PROVE  \A j \in Flights : flight'[j] # NoFlight => flight'[j].gen = gen'
  BY <1>3, <1>4 DEF ReadShared, pageVars
<1>5. ASSUME NEW k \in Flights, ReadGated(k) PROVE FALSE
  BY <1>5 DEF ReadGated
<1>6. ASSUME NEW x \in Secrets \cup {NoSecret}, EditSecret(x)
      PROVE  \A k \in Flights : flight'[k] # NoFlight => flight'[k].gen = gen'
  BY <1>0, <1>6 DEF EditSecret, pollVars
<1>7. CASE Press \/ CallEnds \/ SourceChanges \/ EdgeRefreshes \/ UNCHANGED panelVars
  BY <1>0, <1>7
  DEF Press, CallEnds, SourceChanges, EdgeRefreshes, panelVars, pollVars, pageVars
<1> QED
  BY <1>1, <1>2, <1>4, <1>5, <1>6, <1>7 DEF PanelNext, FlightNext

\* Only an answer of the running effect, or of the only one, is shown.
LEMMA ForwardStep ==
  PanelInv /\ OneEffect /\ [PanelNext]_panelVars => [shown'.gen >= shown.gen]_panelVars
<1> SUFFICES ASSUME PanelInv, OneEffect, PanelNext PROVE shown'.gen >= shown.gen
  OBVIOUS
<1>0. gen \in Nat /\ shown.gen \in 0 .. gen
  BY PanelsAssumption DEF PanelInv, PanelTypeOK
<1>1. ASSUME UNCHANGED shown PROVE shown'.gen >= shown.gen
  BY <1>0, <1>1
<1>2. CASE Reload
  BY <1>0, <1>2 DEF Reload
<1>3. ASSUME NEW k \in Flights, Show(k) PROVE shown'.gen >= shown.gen
  <2>1. CASE Alive(flight[k])
    <3>1. flight[k].gen = gen
      BY <1>3, <2>1 DEF Show, Alive, OneEffect
    <3>2. shown'.gen = flight[k].gen
      BY <1>3, <2>1 DEF Show
    <3> QED
      BY <1>0, <3>1, <3>2
  <2>2. CASE ~Alive(flight[k])
    BY <1>1, <1>3, <2>2 DEF Show
  <2> QED
    BY <2>1, <2>2
<1>4. ASSUME NEW k \in Flights, Poll(k) \/ ReadGated(k) \/ ReadShared(k) \/ Ignore(k)
      PROVE  shown'.gen >= shown.gen
  BY <1>1, <1>4 DEF Poll, ReadGated, ReadShared, Ignore
<1>5. ASSUME NEW x \in Secrets \cup {NoSecret}, EditSecret(x) PROVE shown'.gen >= shown.gen
  BY <1>1, <1>5 DEF EditSecret, pollVars
<1>6. CASE Press \/ CallEnds \/ SourceChanges \/ EdgeRefreshes
  BY <1>1, <1>6 DEF Press, CallEnds, SourceChanges, EdgeRefreshes, pollVars
<1> QED
  BY <1>2, <1>3, <1>4, <1>5, <1>6 DEF PanelNext, FlightNext

\* The panels' types: no poll reads the future, none reads past its statements, and
\* a panel shows whole answers only.
THEOREM PanelTyping == PanelSpec => []PanelTypeOK
<1>1. PanelInv => PanelTypeOK
  BY DEF PanelInv
<1> QED
  BY PanelInitInv, PanelStep, <1>1, PTL DEF PanelSpec

\* /ops, the buttons: whatever the page's calls end in and however often it is
\* reloaded, they are held exactly while one call of this page is under way.
THEOREM ButtonsFollowCalls == PanelSpec => []BusyMeansCall
<1>1. PanelInv => BusyMeansCall
  BY DEF PanelInv
<1> QED
  BY PanelInitInv, PanelStep, <1>1, PTL DEF PanelSpec

\* /ops and /book: however many polls overlap and however late they answer, nothing
\* asked for with an earlier secret replaces what was asked for with a later one.
THEOREM LateAnswersAreDropped == PanelSpec => NoAnswerFromThePast
BY PanelInitInv, PanelStep, EffectStep, ForwardStep, PTL DEF PanelSpec, NoAnswerFromThePast

-----------------------------------------------------------------------------
(* Side by side. *)

\* The parts share no state: a behaviour of all of them is one of each.
LEMMA PartsApart ==
  OpsInit /\ [][OpsNext]_opsVars => SimSpec /\ ChaosSpec /\ GateSpec /\ PushSpec /\ PanelSpec
<1>1. OpsInit => SimInit /\ ChaosInit /\ GateInit /\ PushInit /\ PanelInit
  BY DEF OpsInit
<1>2. [OpsNext]_opsVars => /\ [SimNext]_simVars /\ [ChaosNext]_chaosVars
                          /\ [GateNext]_gateVars /\ [PushNext]_pushVars
                          /\ [PanelNext]_panelVars
  BY DEF OpsNext, opsVars
<1> QED
  BY <1>1, <1>2, PTL DEF SimSpec, ChaosSpec, GateSpec, PushSpec, PanelSpec

\* Whichever part moves, each keeps what its own specification promises.
THEOREM OperationsAreSafe ==
  OpsSpec => /\ [](SimTypeOK /\ RunsAreCounted /\ VerdictsAreFresh /\ FaultsAreBounded)
             /\ [](NothingLeftBehind /\ FlagMeansPush /\ PanelTypeOK /\ BusyMeansCall)
             /\ NoAnswerFromThePast
<1>1. OpsSpec => OpsInit /\ [][OpsNext]_opsVars
  BY DEF OpsSpec
<1> QED
  BY <1>1, PartsApart, SimTyped, ConcurrentRunsAreCounted, GateIsFresh, RacingFaultsAreBounded,
     RestIsComplete, OnePushAtATime, PanelTyping, ButtonsFollowCalls, LateAnswersAreDropped, PTL

=============================================================================
