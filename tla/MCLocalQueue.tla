----------------------------- MODULE MCLocalQueue -----------------------------
(***************************************************************************)
(* Model-checking companion of LocalQueue.  Invocations and bookings are   *)
(* interchangeable, so the first that is idle takes the next job, and they *)
(* are published one behind the other in an order that does not change; a  *)
(* publish or a POST fails only before anything was published              *)
(* (APP_URL is set or is not); and a call is repeated only while few are   *)
(* under way.                                                              *)
(***************************************************************************)
EXTENDS LocalQueue, FiniteSets

CONSTANT MaxLate    \* calls under way once one is repeated

FirstIdle == CHOOSE w \in Workers : pc[w] = "idle"

FirstBooking == CHOOSE b \in Bookings : \A i \in 1 .. Len(order) : order[i] # b

MCNext ==
  /\ LocalNext
  /\ \A w \in Workers : pc[w] = "idle" /\ pc'[w] # "idle" => w = FirstIdle
  /\ \A b \in Bookings : Dispatch(b) => b = FirstBooking
  /\ \A w \in Workers : CallAgain(w) => Cardinality(late') <= MaxLate
  /\ \A b \in Bookings : DispatchFails(b) \/ IngressDies(b) => order = <<>>

MCSpec == LocalInit /\ [][MCNext]_localVars /\ LocalFairness
=============================================================================
