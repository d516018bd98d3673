----------------------------- MODULE MCOperations -----------------------------
(***************************************************************************)
(* Small instance of Operations.  Runs, requests at the gate and calls at  *)
(* one instance are interchangeable, so the first one that is free starts; *)
(* few readings are on their way to the cache of the queue-depth gate at   *)
(* one time, and the depth it reads only grows.                            *)
(***************************************************************************)
EXTENDS Operations

CONSTANT MaxWrites    \* bound: writes on their way at one time

FirstRun == CHOOSE r \in Runs : run[r] = "new"

FirstRequest == CHOOSE r \in Requests : probe[r] = NoReading

FirstCall(i) == CHOOSE c \in Calls : at[c] = i /\ handler[c] = "new"

MCNext ==
  /\ OpsNext
  /\ \A r \in Runs : run[r] = "new" /\ run'[r] # "new" => r = FirstRun
  /\ \A r \in Requests : probe[r] = NoReading /\ probe'[r] # NoReading => r = FirstRequest
  /\ \A c \in Calls : handler[c] = "new" /\ handler'[c] # "new" => c = FirstCall(at[c])
  /\ depth' >= depth
  /\ Cardinality(writes') <= MaxWrites

\* Calls and two instances being interchangeable, all calls but one are at the
\* first.
MCInit ==
  /\ OpsInit
  /\ \A c \in Calls \ {CHOOSE d \in Calls : TRUE} : at[c] = (CHOOSE i \in Instances : TRUE)

MCSpec == MCInit /\ [][MCNext]_opsVars /\ OpsFairness
=============================================================================
