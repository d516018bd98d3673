------------------------------- MODULE Simulator -------------------------------
(*****************************************************************************)
(* POST /api/simulate: a request claims the key simulate:running, answers    *)
(* 202 and goes on firing bookings in the background, a chunk at a time.     *)
(* The claim ends by DEL, whoever holds it by then, and by its TTL, whether  *)
(* or not the run has ended.  A run sends more than one DEL: the one at its  *)
(* end, the one in the catch when that throws, and each again whenever the   *)
(* client library has lost a reply; any of them that reached Redis executes. *)
(*****************************************************************************)
EXTENDS Naturals, FiniteSets

CONSTANTS
  Runs,             \* simulationId of every request
  NoRun,            \* the key simulate:running does not exist
  RequestCount,     \* requestCount of the body
  CHUNK,            \* SIMULATE_CHUNK_SIZE
  MaxDels           \* bound: DELs of one run that execute

ASSUME SimAssumption ==
  /\ NoRun \notin Runs
  /\ RequestCount \in Nat \ {0} /\ CHUNK \in Nat \ {0} /\ MaxDels \in Nat \ {0}

VARIABLES
  lock,       \* simulate:running
  run,        \* where the request or its background run is
  fired,      \* requests the run has made
  dels,       \* DELs of the run that Redis has executed
  overran     \* runs whose claim the TTL took before a DEL of theirs executed

simVars == <<lock, run, fired, dels, overran>>

\* ending: at the DEL that ends fireAll; caught: at the one in its catch; lost: the
\* request is answered 500 and its SET may still be on its way.
RunStates == {"new", "busy", "lost", "claimed", "firing", "ending", "caught",
              "done", "failed", "dead"}

SimTypeOK ==
  /\ lock \in Runs \cup {NoRun}
  /\ run \in [Runs -> RunStates]
  /\ fired \in [Runs -> 0 .. RequestCount]
  /\ dels \in [Runs -> 0 .. MaxDels]
  /\ overran \subseteq Runs

SimInit ==
  /\ lock = NoRun
  /\ run = [r \in Runs |-> "new"]
  /\ fired = [r \in Runs |-> 0]
  /\ dels = [r \in Runs |-> 0]
  /\ overran = {}

\* A run that may still fire.
Active == {r \in Runs : run[r] \in {"claimed", "firing"}}

\* A run whose first DEL has not executed and may yet.
Owing == {r \in Runs : dels[r] = 0 /\ run[r] \in {"claimed", "firing", "ending", "caught", "failed"}}

Goes(r, from, to) ==
  /\ run[r] = from
  /\ run' = [run EXCEPT ![r] = to]

-----------------------------------------------------------------------------
\* SET without NX.
BugClaim(r) ==
  /\ Goes(r, "new", "claimed")
  /\ lock' = r
  /\ UNCHANGED <<fired, dels, overran>>

\* SET NX EX in one command.
Claim(r) ==
  /\ lock = NoRun
  /\ Goes(r, "new", "claimed")
  /\ lock' = r
  /\ UNCHANGED <<fired, dels, overran>>

\* 409 simulator_busy: another run has claimed, or this one has, by a SET whose
\* reply was lost before the client library sent it again.
Busy(r) ==
  /\ Goes(r, "new", "busy")
  /\ \/ lock # NoRun /\ UNCHANGED lock
     \/ lock = NoRun /\ lock' = r
  /\ UNCHANGED <<fired, dels, overran>>

\* The SET throws.
ClaimThrows(r) ==
  /\ Goes(r, "new", "lost")
  /\ UNCHANGED <<lock, fired, dels, overran>>

\* Redis executes it all the same.
ClaimLands(r) ==
  /\ lock = NoRun
  /\ Goes(r, "lost", "dead")
  /\ lock' = r
  /\ UNCHANGED <<fired, dels, overran>>

\* 202; fireAll is under way.
Start(r) ==
  /\ Goes(r, "claimed", "firing")
  /\ UNCHANGED <<lock, fired, dels, overran>>

\* The last batch is as long as the others.
BugBatch(r) == CHUNK

Batch(r) == IF RequestCount - fired[r] < CHUNK THEN RequestCount - fired[r] ELSE CHUNK

\* fireOne catches: Promise.all waits for every answer and never rejects.
FireChunk(r) ==
  /\ run[r] = "firing"
  /\ fired[r] < RequestCount
  /\ fired' = [fired EXCEPT ![r] = @ + Batch(r)]
  /\ UNCHANGED <<lock, run, dels, overran>>

\* Every batch is answered: the run comes to its DEL.
Finish(r) ==
  /\ fired[r] = RequestCount
  /\ Goes(r, "firing", "ending")
  /\ UNCHANGED <<lock, fired, dels, overran>>

\* Redis executes a DEL of the run, while it waits for the reply or later.
DelLands(r) ==
  /\ run[r] \in {"ending", "caught", "done", "failed"}
  /\ dels[r] < MaxDels
  /\ dels' = [dels EXCEPT ![r] = @ + 1]
  /\ lock' = NoRun
  /\ UNCHANGED <<run, fired, overran>>

\* The reply to the DEL arrives.
Ends(r) ==
  /\ dels[r] > 0
  /\ Goes(r, "ending", "done")
  /\ UNCHANGED <<lock, fired, dels, overran>>

\* Something throws in fireAll, the DEL included: the catch sends a DEL again.
FireAllThrows(r) ==
  /\ Goes(r, "firing", "caught") \/ Goes(r, "ending", "caught")
  /\ UNCHANGED <<lock, fired, dels, overran>>

\* That one is answered, or its error is swallowed.
CatchEnds(r) ==
  /\ Goes(r, "caught", "failed")
  /\ UNCHANGED <<lock, fired, dels, overran>>

\* APP_URL is missing, or the platform ends the function (the response is sent
\* and nothing keeps the background run alive): the claim stays, unless a DEL is
\* on its way.
Dies(r) ==
  /\ \/ r \in Active /\ run' = [run EXCEPT ![r] = "dead"]
     \/ Goes(r, "ending", "failed")
  /\ UNCHANGED <<lock, fired, dels, overran>>

\* SET without EX.
BugLockExpires ==
  /\ lock \in Active
  /\ lock' = NoRun
  /\ overran' = overran \cup {lock}
  /\ UNCHANGED <<run, fired, dels>>

\* EX windowSeconds + 10.
LockExpires ==
  /\ lock # NoRun
  /\ lock' = NoRun
  /\ overran' = overran \cup ({lock} \cap Owing)
  /\ UNCHANGED <<run, fired, dels>>

RunNext(r) ==
  \/ Claim(r) \/ Busy(r) \/ ClaimThrows(r) \/ ClaimLands(r) \/ Start(r)
  \/ FireChunk(r) \/ Finish(r) \/ DelLands(r) \/ Ends(r)
  \/ FireAllThrows(r) \/ CatchEnds(r) \/ Dies(r)

SimNext == (\E r \in Runs : RunNext(r)) \/ LockExpires

SimSpec == SimInit /\ [][SimNext]_simVars

\* Redis expires keys.  Nothing is assumed of the runs.
SimFairness == WF_simVars(LockExpires)

SimFairSpec == SimSpec /\ SimFairness

-----------------------------------------------------------------------------
(* What must hold. *)

\* DELs beyond the first of their run.
Repeats == {x \in Runs \X (2 .. MaxDels) : x[2] <= dels[x[1]]}

\* Runs that fire at once: beside the one that holds the claim there are at most
\* as many as have outlived their own and DELs that were repeated.  The first DEL
\* of a run may delete another's claim only because its own was lost before; the
\* one in the catch, and one the client library sends again, may hit a successor
\* although no run has overrun.
RunsAreCounted ==
  Cardinality(Active \ {lock}) <= Cardinality(overran) + Cardinality(Repeats)

\* A claim nobody ends is not for ever: the operator can fire again.
ClaimEnds == lock # NoRun ~> lock = NoRun

\* "Single-flight: prevent two simulators running at once".  It does not, once a
\* run has outlived its claim or a DEL has been repeated.
SingleFlight == Cardinality(Active) <= 1
=============================================================================
