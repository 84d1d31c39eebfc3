------------------------------ MODULE MCQuota ------------------------------
(* Instances of Quota for TLC.                                             *)
EXTENDS Quota, TLC

(* Requests are interchangeable, and so are changes of tier.               *)
Symmetry == Permutations(Request) \cup Permutations(Billing)
=============================================================================
