------------------------- MODULE MCExecutionWorker -------------------------
(* Instances of ExecutionWorker for TLC.                                   *)
EXTENDS ExecutionWorker, TLC

(* Phones and sessions of one tier are interchangeable.                    *)
Symmetry == Permutations(Conn) \cup Permutations(Session)

=============================================================================
