-------------------------- MODULE AdminLimiterProofs --------------------------
(***************************************************************************)
(* The limiter's guarantees for any limit, window, delay and number of     *)
(* callers.                                                                *)
(***************************************************************************)
EXTENDS AdminLimiter, FiniteSetTheorems, WellFoundedInduction, TLAPS

\* Whole seconds are a number of milliseconds, and never less.
LEMMA InSecondsIsEnough ==
  ASSUME NEW ms \in Nat PROVE InSeconds(ms) \in Nat /\ InSeconds(ms) >= ms
<1> DEFINE n == ms + Second - 1
           q == n \div Second
<1>1. n \in Nat /\ q \in Nat
  BY LimiterAssumption
<1>2. n < Second * (q + 1)
  <2>1. n = Second * q + (n % Second) /\ (n % Second) < Second
    BY <1>1, LimiterAssumption
  <2>2. Second * (q + 1) = Second * q + Second
    BY <1>1, LimiterAssumption
  <2> QED
    BY <2>1, <2>2, <1>1, LimiterAssumption
<1>3. Second * (q + 1) = q * Second + Second
  BY <1>1, LimiterAssumption
<1>4. q * Second \in Nat
  BY <1>1, LimiterAssumption
<1> QED
  BY <1>1, <1>2, <1>3, <1>4, LimiterAssumption DEF InSeconds

\* What a hit leaves behind: nothing of the future, and nothing outside the log
\* that a script still to run could have to count.
Recorded ==
  /\ IsFiniteSet(hits)
  /\ \A c \in Callers : now_ms[c] <= now
  /\ \A h \in hits : h.at <= now
  /\ \A h \in hits \ log : h.at + windowMs <= now
  /\ \A h \in log : h.at + 2 * windowMs <= ttl
  /\ Cardinality(log) <= limit

\* A caller that was told when to come back finds a free slot then.
SlotIsKept ==
  \A c \in Callers : notBefore[c] # None /\ ~slotTaken[c] =>
    Cardinality({h \in log : h.at + windowMs > notBefore[c]}) < limit

LimiterInv == LimiterTypeOK /\ Recorded /\ WindowBound /\ SlotIsKept

\* A script counts a finite part of the log, and what it does not count is out
\* of the window for good.
LEMMA Counted ==
  ASSUME LimiterTypeOK, Recorded, NEW c \in Callers, now_ms[c] # None
  PROVE  /\ now_ms[c] \in Nat
         /\ InWindow(now_ms[c]) \subseteq log
         /\ IsFiniteSet(log)
         /\ IsFiniteSet(InWindow(now_ms[c]))
         /\ Cardinality(InWindow(now_ms[c])) \in Nat
         /\ \A h \in hits \ InWindow(now_ms[c]) : h.at + windowMs <= now
<1>1. now_ms[c] \in Nat
  BY DEF LimiterTypeOK
<1>2. InWindow(now_ms[c]) \subseteq log
  BY DEF InWindow, Stored
<1>3. IsFiniteSet(log)
  BY FS_Subset DEF LimiterTypeOK, Recorded
<1>4. IsFiniteSet(InWindow(now_ms[c]))
  BY <1>2, <1>3, FS_Subset
<1>5. ASSUME NEW h \in hits \ InWindow(now_ms[c])
      PROVE  h.at + windowMs <= now
  <2>1. h.at \in Nat /\ now \in Nat /\ ttl \in Nat /\ now_ms[c] <= now
    BY <1>5 DEF LimiterTypeOK, Recorded, Hit
  <2>2. CASE h \notin log
    BY <2>2 DEF Recorded
  <2>3. CASE h \in log /\ h \notin Stored
    BY <2>1, <2>3, LimiterAssumption DEF Recorded, Stored
  <2>4. CASE h \in Stored
    BY <1>1, <2>1, <2>4, LimiterAssumption DEF InWindow
  <2> QED
    BY <2>2, <2>3, <2>4
<1> QED
  BY <1>1, <1>2, <1>3, <1>4, <1>5, FS_CardinalityType

\* A refused caller's Retry-After counts from an oldest hit of the window.
LEMMA OldestIsCounted ==
  ASSUME LimiterTypeOK, Recorded, NEW c \in Callers, now_ms[c] # None,
         Cardinality(InWindow(now_ms[c])) >= limit
  PROVE  \E g \in InWindow(now_ms[c]) :
           /\ Oldest(InWindow(now_ms[c])) = g.at
           /\ g.at \in Nat
           /\ g.at + windowMs - now_ms[c] \in Nat
<1> DEFINE S == InWindow(now_ms[c])
           ats == {h.at : h \in S}
<1>1. S # {}
  BY FS_EmptySet, LimiterAssumption
<1>2. S \subseteq hits
  BY Counted DEF LimiterTypeOK
<1>3. ats \subseteq Nat /\ ats # {}
  BY <1>1, <1>2 DEF LimiterTypeOK, Hit
<1>4. \E at \in ats : \A h \in S : at <= h.at
  <2>1. \E at \in ats : \A x \in ats : ~ (x < at)
    <3>1. PICK at \in ats : \A x \in ats : <<x, at>> \notin OpToRel(<, Nat)
      BY <1>3, NatLessThanWellFounded, WFMin
    <3> QED
      BY <1>3, <3>1, Zenon DEF OpToRel
  <2>2. PICK at \in ats : \A x \in ats : ~ (x < at)
    BY <2>1
  <2>3. \A h \in S : h.at \in ats
    OBVIOUS
  <2> HIDE DEF ats
  <2>4. \A x \in ats : at <= x
    BY <1>3, <2>2
  <2> QED
    BY <2>2, <2>3, <2>4
<1>5. Oldest(S) \in ats
  BY <1>4 DEF Oldest
<1>6. PICK g \in S : Oldest(S) = g.at
  BY <1>5
<1>7. g.at \in Nat /\ g.at + windowMs - now_ms[c] \in Nat
  <2>1. g.at > now_ms[c] - windowMs
    BY DEF InWindow
  <2> QED
    BY <2>1, <1>2, LimiterAssumption DEF LimiterTypeOK, Hit
<1> QED
  BY <1>6, <1>7

-----------------------------------------------------------------------------
(* The invariant: LimiterInv is inductive. *)

\* An empty bucket.
LEMMA LimiterInitInv == LimiterInit => LimiterInv
<1> SUFFICES ASSUME LimiterInit PROVE LimiterInv
  OBVIOUS
<1>1. LimiterTypeOK
  BY DEF LimiterInit, LimiterTypeOK
<1>2. Recorded
  BY FS_EmptySet, LimiterAssumption DEF LimiterInit, Recorded, None
<1>3. WindowBound /\ SlotIsKept
  BY DEF LimiterInit, WindowBound, SlotIsKept
<1> QED
  BY <1>1, <1>2, <1>3 DEF LimiterInv

\* Time passes, and a caller takes its timestamp.
LEMMA QuietStep ==
  ASSUME LimiterInv,
         \/ Tick
         \/ \E c \in Callers : RequireAdmin(c) \/ FailOpen(c)
         \/ UNCHANGED limiterVars
  PROVE  LimiterInv'
<1> USE DEF LimiterInv
<1>1. now' \in Nat /\ now' >= now /\ log' = log /\ hits' = hits /\ ttl' = ttl
  BY DEF LimiterTypeOK, Tick, RequireAdmin, FailOpen, limiterVars
<1>2. /\ now_ms' \in [Callers -> Nat \cup {None}]
      /\ \A c \in Callers : now_ms'[c] <= now'
  BY <1>1 DEF LimiterTypeOK, Recorded, Tick, RequireAdmin, FailOpen, limiterVars, None
<1>3. /\ notBefore' \in [Callers -> Nat \cup {None}]
      /\ slotTaken' = slotTaken
      /\ \A c \in Callers : notBefore'[c] \in {notBefore[c], None}
  BY DEF LimiterTypeOK, Tick, RequireAdmin, FailOpen, limiterVars
<1>4. LimiterTypeOK'
  BY <1>1, <1>2, <1>3 DEF LimiterTypeOK
<1>5. Recorded'
  <2>1. \A h \in hits : h.at \in Nat
    BY DEF LimiterTypeOK, Hit
  <2>2. now \in Nat
    BY DEF LimiterTypeOK
  <2> QED
    BY <1>1, <1>2, <2>1, <2>2, LimiterAssumption DEF Recorded
<1>6. WindowBound'
  BY <1>1 DEF WindowBound, Window
<1>7. SlotIsKept'
  BY <1>1, <1>3 DEF SlotIsKept
<1> QED
  BY <1>4, <1>5, <1>6, <1>7

\* A script that has room records one hit.
LEMMA AdmitStep ==
  ASSUME LimiterInv, NEW c \in Callers, Admit(c)
  PROVE  LimiterInv'
<1> USE DEF LimiterInv
<1> DEFINE t == now_ms[c]
           m == Member(t)
           S == InWindow(t)
<1>1. /\ t # None /\ now - t <= MaxDelay
      /\ Cardinality(S) < limit
      /\ log' = S \cup {m} /\ hits' = hits \cup {m}
      /\ ttl' = now + 2 * windowMs /\ now' = now
      /\ now_ms' = [now_ms EXCEPT ![c] = None]
      /\ notBefore' = [notBefore EXCEPT ![c] = None]
      /\ slotTaken' = [d \in Callers |-> d # c]
  BY DEF Admit
<1>2. /\ t \in Nat /\ S \subseteq log /\ IsFiniteSet(S)
      /\ Cardinality(S) \in Nat
      /\ \A h \in hits \ S : h.at + windowMs <= now
  BY <1>1, Counted
<1>3. m \in Hit /\ m.at = t
  BY <1>2, FS_CardinalityType DEF Member, Hit, Recorded
<1>4. /\ now \in Nat /\ t <= now
      /\ \A h \in hits : h.at \in Nat /\ h.at <= now
  BY DEF LimiterTypeOK, Recorded, Hit
<1> HIDE DEF m, S
<1>5. LimiterTypeOK'
  <2>1. now_ms' \in [Callers -> Nat \cup {None}]
    BY <1>1 DEF LimiterTypeOK
  <2>2. notBefore' \in [Callers -> Nat \cup {None}]
    BY <1>1 DEF LimiterTypeOK
  <2>3. ttl' \in Nat
    BY <1>1, <1>4, LimiterAssumption
  <2>4. hits' \subseteq Hit /\ log' \subseteq hits'
    BY <1>1, <1>2, <1>3 DEF LimiterTypeOK
  <2> QED
    BY <1>1, <1>4, <2>1, <2>2, <2>3, <2>4 DEF LimiterTypeOK
<1>6. IsFiniteSet(log') /\ Cardinality(log') \in Nat /\ Cardinality(log') <= limit
  <2>1. /\ IsFiniteSet(S \cup {m})
        /\ Cardinality(S \cup {m}) \in {Cardinality(S), Cardinality(S) + 1}
    BY <1>2, FS_AddElement
  <2> QED
    BY <1>1, <1>2, <2>1, LimiterAssumption
<1>7. Recorded'
  <2>1. IsFiniteSet(hits')
    BY <1>1, FS_AddElement DEF Recorded
  <2>2. \A d \in Callers : now_ms'[d] <= now'
    BY <1>1, <1>4 DEF LimiterTypeOK, Recorded, None
  <2>3. \A h \in hits' : h.at <= now'
    BY <1>1, <1>3, <1>4
  <2>4. \A h \in hits' \ log' : h.at + windowMs <= now'
    BY <1>1, <1>2
  <2>5. \A h \in log' : h.at + 2 * windowMs <= ttl'
    <3> SUFFICES ASSUME NEW h \in log' PROVE h.at + 2 * windowMs <= ttl'
      OBVIOUS
    <3>1. h.at \in Nat /\ h.at <= now
      BY <1>1, <1>2, <1>3, <1>4 DEF LimiterTypeOK
    <3> QED
      BY <1>1, <1>4, <3>1, LimiterAssumption
  <2> QED
    BY <1>6, <2>1, <2>2, <2>3, <2>4, <2>5 DEF Recorded
<1>8. WindowBound'
  <2> SUFFICES ASSUME NEW h \in hits'
               PROVE  Cardinality(Window(h.at, windowMs - MaxDelay)') <= limit
    BY DEF WindowBound
  <2> DEFINE W == {g \in hits' : h.at <= g.at /\ g.at < h.at + (windowMs - MaxDelay)}
  <2>1. W = Window(h.at, windowMs - MaxDelay)'
    BY DEF Window
  <2>2. h.at \in Nat
    BY <1>1, <1>2, <1>3, <1>4
  <2>3. CASE m \in W
    <3>1. ASSUME NEW g \in hits \ S PROVE g \notin W
      BY <1>1, <1>2, <1>3, <1>4, <2>2, <2>3, <3>1, LimiterAssumption
    <3>2. W \subseteq log'
      BY <1>1, <3>1
    <3> QED
      BY <1>6, <2>1, <3>2, FS_Subset, FS_CardinalityType, LimiterAssumption
  <2>4. CASE m \notin W /\ h \in hits
    <3>1. W = Window(h.at, windowMs - MaxDelay)
      BY <1>1, <2>4 DEF Window
    <3> QED
      BY <2>1, <2>4, <3>1 DEF WindowBound
  <2>5. CASE m \notin W /\ h = m
    <3>1. windowMs - MaxDelay <= 0
      BY <1>1, <2>2, <2>5, LimiterAssumption
    <3>2. \A g \in hits' : g.at \in Nat
      BY <1>1, <1>2, <1>3, <1>4
    <3>3. W = {}
      BY <2>2, <3>1, <3>2, LimiterAssumption
    <3> QED
      BY <2>1, <3>3, FS_EmptySet, LimiterAssumption
  <2> QED
    BY <1>1, <2>3, <2>4, <2>5
<1>9. SlotIsKept'
  BY <1>1 DEF SlotIsKept, LimiterTypeOK
<1> QED
  BY <1>5, <1>7, <1>8, <1>9

\* A script that has no room records nothing, and names the moment at which an
\* oldest hit leaves the window.
LEMMA RefuseStep ==
  ASSUME LimiterInv, NEW c \in Callers, Refuse(c)
  PROVE  LimiterInv'
<1> USE DEF LimiterInv
<1> DEFINE t == now_ms[c]
           S == InWindow(t)
           free(d) == {h \in log : h.at + windowMs > notBefore[d]}
<1>1. /\ t # None /\ Cardinality(S) >= limit
      /\ log' = S
      /\ notBefore' = [notBefore EXCEPT ![c] = t + InSeconds(Oldest(S) + windowMs - t)]
      /\ slotTaken' = [slotTaken EXCEPT ![c] = FALSE]
      /\ now_ms' = [now_ms EXCEPT ![c] = None]
      /\ now' = now /\ ttl' = ttl /\ hits' = hits
  BY DEF Refuse
<1>2. /\ t \in Nat /\ S \subseteq log /\ IsFiniteSet(log) /\ IsFiniteSet(S)
      /\ \A h \in hits \ S : h.at + windowMs <= now
  BY <1>1, Counted
<1>3. PICK g \in S : Oldest(S) = g.at /\ g.at \in Nat /\ g.at + windowMs - t \in Nat
  BY <1>1, OldestIsCounted
<1> HIDE DEF S
<1>4. notBefore'[c] \in Nat /\ notBefore'[c] >= g.at + windowMs
  <2>1. /\ InSeconds(g.at + windowMs - t) \in Nat
        /\ InSeconds(g.at + windowMs - t) >= g.at + windowMs - t
    BY <1>3, InSecondsIsEnough
  <2>2. notBefore'[c] = t + InSeconds(g.at + windowMs - t)
    BY <1>1, <1>3 DEF LimiterTypeOK
  <2> QED
    BY <1>2, <1>3, <2>1, <2>2, LimiterAssumption
<1>5. LimiterTypeOK'
  <2>1. now_ms' \in [Callers -> Nat \cup {None}]
    BY <1>1 DEF LimiterTypeOK
  <2>2. notBefore' \in [Callers -> Nat \cup {None}]
    BY <1>1, <1>4 DEF LimiterTypeOK
  <2>3. slotTaken' \in [Callers -> BOOLEAN]
    BY <1>1 DEF LimiterTypeOK
  <2> QED
    BY <1>1, <1>2, <2>1, <2>2, <2>3 DEF LimiterTypeOK
<1>6. /\ Cardinality(log') \in Nat /\ Cardinality(log') <= limit
      /\ IsFiniteSet(log')
  BY <1>1, <1>2, FS_Subset, FS_CardinalityType, LimiterAssumption DEF Recorded
<1>7. Recorded'
  <2>1. \A d \in Callers : now_ms'[d] <= now'
    BY <1>1 DEF LimiterTypeOK, Recorded, None
  <2> QED
    BY <1>1, <1>2, <1>6, <2>1 DEF Recorded
<1>8. WindowBound'
  BY <1>1 DEF WindowBound, Window
<1>9. SlotIsKept'
  <2> SUFFICES ASSUME NEW d \in Callers, notBefore'[d] # None, ~slotTaken'[d]
               PROVE  Cardinality({h \in log' : h.at + windowMs > notBefore'[d]}) < limit
    BY DEF SlotIsKept
  <2> DEFINE F == {h \in log' : h.at + windowMs > notBefore'[d]}
  <2>1. CASE d = c
    <3>1. g \in log' /\ g \notin F
      BY <1>1, <1>3, <1>4, <2>1, LimiterAssumption
    <3>2. F \subseteq log' /\ F # log'
      BY <3>1
    <3> QED
      BY <1>6, <3>2, FS_Subset, FS_CardinalityType, LimiterAssumption
  <2>2. CASE d # c
    <3>1. notBefore'[d] = notBefore[d] /\ slotTaken'[d] = slotTaken[d]
      BY <1>1, <2>2 DEF LimiterTypeOK
    <3>2. F \subseteq free(d)
      BY <1>1, <1>2, <3>1
    <3>3. IsFiniteSet(free(d)) /\ Cardinality(free(d)) < limit
      BY <1>2, <3>1, FS_Subset DEF SlotIsKept
    <3> QED
      BY <3>2, <3>3, FS_Subset, FS_CardinalityType, LimiterAssumption
  <2> QED
    BY <2>1, <2>2
<1> QED
  BY <1>5, <1>7, <1>8, <1>9

\* Every step keeps the invariant.
LEMMA LimiterStep == LimiterInv /\ [LimiterNext]_limiterVars => LimiterInv'
  BY QuietStep, AdmitStep, RefuseStep DEF LimiterNext

\* The log never loses a hit that still counts, and never holds more than limit.
THEOREM LimiterInvariant == LimiterSpec => []LimiterInv
  BY LimiterInitInv, LimiterStep, PTL DEF LimiterSpec

\* The log, the clocks and the answers of every caller keep their types.
COROLLARY LimiterTyping == LimiterSpec => []LimiterTypeOK
  BY LimiterInvariant, PTL DEF LimiterInv

\* Although scripts run out of order and the key expires as a whole, no window
\* shorter than windowMs by the delay of a script admits more than limit.
THEOREM LimiterBoundsEveryWindow == LimiterSpec => []WindowBound
  BY LimiterInvariant, PTL DEF LimiterInv

\* A caller that waits for its Retry-After is not refused again, unless another
\* request took the slot.
THEOREM RetryAfterSuffices == LimiterSpec => RetryAfterIsEnough
<1> DEFINE Enough == \A c \in Callers :
             /\ notBefore[c] # None /\ ~slotTaken[c] /\ now_ms[c] >= notBefore[c]
             => ~Refuse(c)
<1>1. LimiterInv => Enough
  <2> SUFFICES ASSUME LimiterInv, NEW c \in Callers, notBefore[c] # None,
                      ~slotTaken[c], now_ms[c] >= notBefore[c], Refuse(c)
               PROVE  FALSE
    OBVIOUS
  <2> DEFINE S == InWindow(now_ms[c])
             F == {h \in log : h.at + windowMs > notBefore[c]}
  <2>1. now_ms[c] # None /\ Cardinality(S) >= limit
    BY DEF Refuse
  <2>2. /\ now_ms[c] \in Nat /\ S \subseteq log /\ IsFiniteSet(log)
        /\ Cardinality(S) \in Nat
    BY <2>1, Counted DEF LimiterInv
  <2>3. S \subseteq F
    <3>1. notBefore[c] \in Nat /\ \A h \in log : h.at \in Nat
      BY DEF LimiterInv, LimiterTypeOK, Hit
    <3>2. \A h \in S : h.at > now_ms[c] - windowMs
      BY DEF InWindow
    <3> QED
      BY <2>2, <3>1, <3>2, LimiterAssumption
  <2>4. IsFiniteSet(F) /\ Cardinality(F) < limit
    BY <2>2, FS_Subset DEF LimiterInv, SlotIsKept
  <2> HIDE DEF S, F
  <2> QED
    BY <2>1, <2>2, <2>3, <2>4, FS_Subset, FS_CardinalityType, LimiterAssumption
<1>2. LimiterInv /\ [LimiterNext]_limiterVars => [Enough]_limiterVars
  BY <1>1
<1> QED
  BY <1>2, LimiterInvariant, PTL DEF LimiterSpec, RetryAfterIsEnough
=============================================================================
