---------------------------- MODULE BarrierSpec ----------------------------
(***************************************************************************)
(* What axrun_sync promises (include/axiom_run_api.h): a call for a barrier *)
(* returns only when every application of the run has called it. Each pair *)
(* of a node and a barrier id is one caller.                               *)
(***************************************************************************)
EXTENDS Integers

CONSTANTS Nodes, Ids, MaxCalls

VARIABLES
  calls,   \* calls[<<n, b>>]: calls of barrier b made on node n
  rets     \* rets[<<n, b>>]: calls that have returned

Callers == Nodes \X Ids

Init == calls = [e \in Callers |-> 0] /\ rets = [e \in Callers |-> 0]

Arrive(e) ==
  /\ calls[e] = rets[e] /\ calls[e] < MaxCalls
  /\ calls' = [calls EXCEPT ![e] = @ + 1]
  /\ UNCHANGED rets

\* the k-th call returns only after the k-th call on every node
Leave(e) ==
  /\ rets[e] < calls[e]
  /\ \A m \in Nodes : rets[e] < calls[<<m, e[2]>>]
  /\ rets' = [rets EXCEPT ![e] = @ + 1]
  /\ UNCHANGED calls

Next == \E e \in Callers : Arrive(e) \/ Leave(e)
Spec == Init /\ [][Next]_<<calls, rets>>
=============================================================================
