-------------------------- MODULE MCCloudExecution --------------------------
(* Instances of CloudExecution for TLC.                                    *)
EXTENDS CloudExecution
=============================================================================
