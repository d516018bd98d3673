------------------------------ MODULE Operations ------------------------------
(***************************************************************************)
(* The small parts around the sale: the load simulator, chaos injection,   *)
(* the queue-depth gate, the metrics pusher and the live panels.  They     *)
(* share no state with each other, so interleaving them would show nothing *)
(* new: in each behaviour one of them, `part`, moves.                      *)
(***************************************************************************)
EXTENDS Simulator, ChaosGate, DepthGate, MetricsPush, LivePanels

Parts == {"simulator", "chaos", "gate", "metrics", "panels"}

VARIABLE part

opsVars == <<part, simVars, chaosVars, gateVars, pushVars, panelVars>>

\* A part that rests has one initial state.
Rests ==
  /\ part # "gate" => depth = CHOOSE d \in Depths : TRUE
  /\ part # "metrics" => at = [c \in Calls |-> CHOOSE i \in Instances : TRUE]
  /\ part # "panels" => panel = "stats"

OpsInit ==
  /\ part \in Parts
  /\ SimInit /\ ChaosInit /\ GateInit /\ PushInit /\ PanelInit
  /\ Rests

OpsNext ==
  /\ UNCHANGED part
  /\ \/ part = "simulator" /\ SimNext
        /\ UNCHANGED <<chaosVars, gateVars, pushVars, panelVars>>
     \/ part = "chaos" /\ ChaosNext
        /\ UNCHANGED <<simVars, gateVars, pushVars, panelVars>>
     \/ part = "gate" /\ GateNext
        /\ UNCHANGED <<simVars, chaosVars, pushVars, panelVars>>
     \/ part = "metrics" /\ PushNext
        /\ UNCHANGED <<simVars, chaosVars, gateVars, panelVars>>
     \/ part = "panels" /\ PanelNext
        /\ UNCHANGED <<simVars, chaosVars, gateVars, pushVars>>

\* In the initial state of a part that rests, none of its fair actions is enabled.
OpsFairness == SimFairness /\ ChaosFairness /\ PushFairness /\ PanelFairness

OpsSpec == OpsInit /\ [][OpsNext]_opsVars /\ OpsFairness
=============================================================================
