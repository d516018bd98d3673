------------------------------ MODULE MetricsPush ------------------------------
(****************************************************************************)
(* Metrics: every server instance counts in memory, and after the response  *)
(* to a booking, an allocation or a sweep pushes what it has counted to one *)
(* remote store.  The failure webhook counts and pushes nothing, and so do  *)
(* the jobs of the local queue.  A flag per instance keeps two pushes from  *)
(* overlapping: a flush that finds it set is skipped, a push that fails is  *)
(* not repeated.  What is left behind waits for the next flush of the       *)
(* instance, or is lost with it.                                            *)
(*                                                                          *)
(* One series of one registered counter is modelled.  The labels do not     *)
(* name the instance: all instances write the same remote series.           *)
(****************************************************************************)
EXTENDS Naturals

CONSTANTS
  Instances,      \* warm server instances
  Calls,          \* requests they serve and jobs they run
  MaxCount        \* bound: increments per instance

ASSUME PushAssumption == MaxCount \in Nat

VARIABLES
  at,         \* per call: the instance that serves it
  handler,    \* per call: "new", "running" or "sent"
  flush,      \* per call: the flush registered with after()
  taken,      \* per call: the value its flush has read
  count,      \* per instance: the counter
  pushing,    \* per instance: pushingInFlight
  accepted,   \* per instance: the last of its values the remote store acknowledged
  missed,     \* per instance: a flush was skipped or failed after the last snapshot
  unflushed,  \* per instance: a call without a flush counted after the last snapshot
  remote      \* the remote series

pushVars == <<at, handler, flush, taken, count, pushing, accepted, missed, unflushed,
              remote>>

Flushes == {"none", "due", "snapshot", "push", "over"}

PushTypeOK ==
  /\ at \in [Calls -> Instances]
  /\ handler \in [Calls -> {"new", "running", "sent"}]
  /\ flush \in [Calls -> Flushes]
  /\ taken \in [Calls -> 0 .. MaxCount]
  /\ count \in [Instances -> 0 .. MaxCount]
  /\ pushing \in [Instances -> BOOLEAN]
  /\ accepted \in [Instances -> 0 .. MaxCount]
  /\ missed \in [Instances -> BOOLEAN]
  /\ unflushed \in [Instances -> BOOLEAN]
  /\ remote \in 0 .. MaxCount

PushInit ==
  /\ at \in [Calls -> Instances]
  /\ handler = [c \in Calls |-> "new"]
  /\ flush = [c \in Calls |-> "none"]
  /\ taken = [c \in Calls |-> 0]
  /\ count = [i \in Instances |-> 0]
  /\ pushing = [i \in Instances |-> FALSE]
  /\ accepted = [i \in Instances |-> 0]
  /\ missed = [i \in Instances |-> FALSE]
  /\ unflushed = [i \in Instances |-> FALSE]
  /\ remote = 0

Flush(c, from, to) ==
  /\ flush[c] = from
  /\ flush' = [flush EXCEPT ![c] = to]
  /\ UNCHANGED <<at, handler, count>>

-----------------------------------------------------------------------------
\* POST /api/book, the worker and the sweeper: scheduleMetricsPush comes first.
Begin(c) ==
  /\ handler[c] = "new"
  /\ handler' = [handler EXCEPT ![c] = "running"]
  /\ flush' = [flush EXCEPT ![c] = "due"]
  /\ UNCHANGED <<at, taken, count, pushing, accepted, missed, unflushed, remote>>

\* The failure webhook, or runWorkerJob behind a request: nothing is scheduled.
BeginSilent(c) ==
  /\ handler[c] = "new"
  /\ handler' = [handler EXCEPT ![c] = "running"]
  /\ flush' = [flush EXCEPT ![c] = "over"]
  /\ UNCHANGED <<at, taken, count, pushing, accepted, missed, unflushed, remote>>

\* record.counter of a name counterByName knows; another name counts nothing.
Count(c) ==
  /\ handler[c] = "running"
  /\ count[at[c]] < MaxCount
  /\ count' = [count EXCEPT ![at[c]] = @ + 1]
  /\ unflushed' = [unflushed EXCEPT ![at[c]] = @ \/ flush[c] = "over"]
  /\ UNCHANGED <<at, handler, flush, taken, pushing, accepted, missed, remote>>

Respond(c) ==
  /\ handler[c] = "running"
  /\ handler' = [handler EXCEPT ![c] = "sent"]
  /\ UNCHANGED <<at, flush, taken, count, pushing, accepted, missed, unflushed, remote>>

\* pushingInFlight: return.
SkipFlush(c) ==
  /\ handler[c] = "sent" /\ pushing[at[c]]
  /\ Flush(c, "due", "over")
  /\ missed' = [missed EXCEPT ![at[c]] = TRUE]
  /\ UNCHANGED <<taken, pushing, accepted, unflushed, remote>>

\* flushMetrics is called by the handler instead of after().
BugStartFlush(c) ==
  /\ handler[c] # "new" /\ ~pushing[at[c]]
  /\ Flush(c, "due", "snapshot")
  /\ pushing' = [pushing EXCEPT ![at[c]] = TRUE]
  /\ UNCHANGED <<taken, accepted, missed, unflushed, remote>>

StartFlush(c) ==
  /\ handler[c] = "sent" /\ ~pushing[at[c]]
  /\ Flush(c, "due", "snapshot")
  /\ pushing' = [pushing EXCEPT ![at[c]] = TRUE]
  /\ UNCHANGED <<taken, accepted, missed, unflushed, remote>>

Snapshot(c) ==
  /\ Flush(c, "snapshot", "push")
  /\ taken' = [taken EXCEPT ![c] = count[at[c]]]
  /\ missed' = [missed EXCEPT ![at[c]] = FALSE]
  /\ unflushed' = [unflushed EXCEPT ![at[c]] = FALSE]
  /\ UNCHANGED <<pushing, accepted, remote>>

PushAccepted(c) ==
  /\ Flush(c, "push", "over")
  /\ remote' = taken[c]
  /\ accepted' = [accepted EXCEPT ![at[c]] = taken[c]]
  /\ pushing' = [pushing EXCEPT ![at[c]] = FALSE]
  /\ UNCHANGED <<taken, missed, unflushed>>

\* The flag is reset after the push instead of in finally.
BugPushFails(c) ==
  /\ Flush(c, "push", "over")
  /\ missed' = [missed EXCEPT ![at[c]] = TRUE]
  /\ UNCHANGED <<taken, pushing, accepted, unflushed, remote>>

\* An error status, an exception or the timeout: logged, and that is all.  The
\* store may have taken the values.
PushFails(c) ==
  /\ Flush(c, "push", "over")
  /\ missed' = [missed EXCEPT ![at[c]] = TRUE]
  /\ pushing' = [pushing EXCEPT ![at[c]] = FALSE]
  /\ remote' \in {remote, taken[c]}
  /\ UNCHANGED <<taken, accepted, unflushed>>

\* The platform ends an instance; a cold start takes its place.
Recycle(i) ==
  /\ \E c \in Calls : at[c] = i /\ handler[c] # "new"
  /\ handler' = [c \in Calls |-> IF at[c] = i /\ handler[c] # "new" THEN "sent" ELSE handler[c]]
  /\ flush' = [c \in Calls |-> IF at[c] = i /\ handler[c] # "new" THEN "over" ELSE flush[c]]
  /\ count' = [count EXCEPT ![i] = 0]
  /\ pushing' = [pushing EXCEPT ![i] = FALSE]
  /\ accepted' = [accepted EXCEPT ![i] = 0]
  /\ missed' = [missed EXCEPT ![i] = FALSE]
  /\ unflushed' = [unflushed EXCEPT ![i] = FALSE]
  /\ UNCHANGED <<at, taken, remote>>

CallNext(c) ==
  \/ Begin(c) \/ BeginSilent(c) \/ Count(c) \/ Respond(c)
  \/ SkipFlush(c) \/ StartFlush(c) \/ Snapshot(c) \/ PushAccepted(c) \/ PushFails(c)

PushNext == (\E c \in Calls : CallNext(c)) \/ \E i \in Instances : Recycle(i)

PushSpec == PushInit /\ [][PushNext]_pushVars

\* A push that has begun ends: pushTimeseries has a timeout.
PushFairness ==
  \A c \in Calls :
    /\ WF_pushVars(Snapshot(c))
    /\ WF_pushVars(PushAccepted(c) \/ PushFails(c))

PushFairSpec == PushSpec /\ PushFairness

-----------------------------------------------------------------------------
(* What must hold. *)

\* Nothing runs at the instance, and no flush is to come.
Quiet(i) ==
  \A c \in Calls : at[c] = i =>
    handler[c] = "new" \/ (handler[c] = "sent" /\ flush[c] = "over")

\* An instance at rest has reported all it has counted, unless since the last
\* snapshot a flush was skipped, a push failed or a call that schedules no flush
\* counted: what a handler that does schedule one counts late does not slip
\* through, whichever other flush overlaps its own.
NothingLeftBehind ==
  \A i \in Instances : Quiet(i) => accepted[i] = count[i] \/ missed[i] \/ unflushed[i]

\* One push at a time: the flag is set exactly while one is under way.
Pushing(c) == flush[c] \in {"snapshot", "push"}

FlagMeansPush ==
  /\ \A c \in Calls : Pushing(c) => pushing[at[c]]
  /\ \A i \in Instances : pushing[i] => \E c \in Calls : at[c] = i /\ Pushing(c)
  /\ \A c, d \in Calls : Pushing(c) /\ Pushing(d) /\ at[c] = at[d] => c = d

\* The flag never stays set: no instance falls silent.
FlagIsReleased == \A i \in Instances : pushing[i] ~> ~pushing[i]

\* "Called at the end of each Node-runtime handler": at rest, with no flush skipped
\* and no push failed, everything is reported.  The failure webhook counts a
\* dead letter and calls nothing.
EveryHandlerFlushes ==
  \A i \in Instances : Quiet(i) => accepted[i] = count[i] \/ missed[i]

\* "Counters are additive": at rest, with nothing left behind, the remote series
\* shows no less than what any instance has counted.  It shows the count of
\* whichever instance pushed last.
RemoteIsTotal ==
  (\A i \in Instances : Quiet(i) /\ accepted[i] = count[i]) =>
    \A i \in Instances : remote >= count[i]
=============================================================================
