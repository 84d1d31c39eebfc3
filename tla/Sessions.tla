------------------------------ MODULE Sessions ------------------------------
(***************************************************************************)
(* The identities every other module speaks of.  POST /jobs makes one Job  *)
(* row and one Session row together and gives both ids to the same queue   *)
(* entry, so one name stands for the three of them.                        *)
(***************************************************************************)
CONSTANTS
  Session,     \* the sessions the API may create
  NoSession    \* none of them

ASSUME SessionAssumption == NoSession \notin Session

=============================================================================
