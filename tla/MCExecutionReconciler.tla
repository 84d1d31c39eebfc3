----------------------- MODULE MCExecutionReconciler -----------------------
(* Instances of ExecutionReconciler for TLC.                               *)
EXTENDS ExecutionReconciler, FiniteSets

(* Bound: how many different events the arbitrary worker publishes.        *)
MaxEvents == 3

BoundedSpec == Init /\ [][Next /\ Cardinality(events') <= MaxEvents]_rvars

=============================================================================
