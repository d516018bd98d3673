------------------------------- MODULE ChaosGate -------------------------------
(***************************************************************************)
(* Faults on demand: POST /api/admin/kill-worker arms a counter in Redis,  *)
(* and every invocation of the worker first asks maybeInjectChaos, which   *)
(* reads the counter with one command and writes it back with another.     *)
(* Invocations that run at once take the same fault, and a late write      *)
(* brings back a counter that others have used up, that has expired or     *)
(* that the operator has armed anew.                                       *)
(***************************************************************************)
EXTENDS Naturals, FiniteSets, Combinatorics

CONSTANTS
  Invocations,    \* worker invocations that run at once
  FailNext,       \* the largest failNextN
  MaxArms,        \* bound: how often the operator arms
  MaxLost,        \* bound: writes that fail
  NoFlag          \* chaos:worker:fail-next does not exist

ASSUME ChaosAssumption ==
  /\ FailNext \in Nat \ {0} /\ MaxArms \in Nat /\ MaxLost \in Nat /\ NoFlag \notin Nat
  /\ IsFiniteSet(Invocations)

VARIABLES
  flag,       \* remaining, or NoFlag
  saw,        \* per invocation: the remaining it has read, not yet written back
  arms,       \* how often the operator has armed
  lost,       \* writes that have failed
  faults      \* faults fired

chaosVars == <<flag, saw, arms, lost, faults>>

ChaosInit ==
  /\ flag = NoFlag
  /\ saw = [i \in Invocations |-> NoFlag]
  /\ arms = 0
  /\ lost = 0
  /\ faults = 0

\* SET ... EX 60, whatever is there.
Arm(n) ==
  /\ arms < MaxArms
  /\ arms' = arms + 1
  /\ flag' = n
  /\ UNCHANGED <<saw, lost, faults>>

\* No flag, or a GET that fails, is no fault: nothing changes.
ReadFlag(i) ==
  /\ saw[i] = NoFlag
  /\ flag # NoFlag
  /\ saw' = [saw EXCEPT ![i] = flag]
  /\ UNCHANGED <<flag, arms, lost, faults>>

\* What remains when a fault has been taken from n.
BugOneLess(n) == n

OneLess(n) == IF n <= 1 THEN NoFlag ELSE n - 1

\* DEL or SET ... EX 60.  The invocation ends with the fault, and another one
\* takes its place.
Fire(i) ==
  /\ saw[i] # NoFlag
  /\ flag' = OneLess(saw[i])
  /\ saw' = [saw EXCEPT ![i] = NoFlag]
  /\ faults' = faults + 1
  /\ UNCHANGED <<arms, lost>>

\* The write throws: the fault is fired all the same.
FireUncounted(i) ==
  /\ saw[i] # NoFlag
  /\ lost < MaxLost
  /\ lost' = lost + 1
  /\ saw' = [saw EXCEPT ![i] = NoFlag]
  /\ faults' = faults + 1
  /\ UNCHANGED <<flag, arms>>

\* The invocation dies between the two commands.
DiesArmed(i) ==
  /\ saw[i] # NoFlag
  /\ saw' = [saw EXCEPT ![i] = NoFlag]
  /\ UNCHANGED <<flag, arms, lost, faults>>

\* Neither SET carries EX.
BugFlagExpires ==
  /\ flag = 0
  /\ flag' = NoFlag
  /\ UNCHANGED <<saw, arms, lost, faults>>

\* EX 60.
FlagExpires ==
  /\ flag # NoFlag
  /\ flag' = NoFlag
  /\ UNCHANGED <<saw, arms, lost, faults>>

InvocationNext(i) == ReadFlag(i) \/ Fire(i) \/ FireUncounted(i) \/ DiesArmed(i)

ChaosNext ==
  \/ \E n \in 1 .. FailNext : Arm(n)
  \/ \E i \in Invocations : InvocationNext(i)
  \/ FlagExpires

ChaosSpec == ChaosInit /\ [][ChaosNext]_chaosVars

\* Redis expires keys, and an invocation that has read the flag fires or dies.
ChaosFairness ==
  /\ WF_chaosVars(FlagExpires)
  /\ \A i \in Invocations :
       WF_chaosVars(Fire(i) \/ FireUncounted(i) \/ DiesArmed(i))

ChaosFairSpec == ChaosSpec /\ ChaosFairness

-----------------------------------------------------------------------------
(* What must hold. *)

\* How far the race can go: k invocations that run at once turn one order for n
\* faults into at most C(n + k, k) - 1 of them, as long as no write fails.
FaultsAreBounded ==
  (arms <= 1 /\ lost = 0) =>
    LET k == Cardinality(Invocations) IN faults + 1 <= choose(FailNext + k, k)

\* Chaos ends: whatever late writes bring back, once the operator stops arming
\* the counter is gone for good.
ChaosEnds == <>[](flag = NoFlag)

\* "we may fire chaos one extra time" (when a write fails).  Without a single
\* failed write there may be more.
OneExtraFault == arms <= 1 => faults <= FailNext + 1
=============================================================================
