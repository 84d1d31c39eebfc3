-------------------------- MODULE SessionLifecycle --------------------------
(***************************************************************************)
(* What GET /jobs and GET /sessions promise of one CLOUD session, without  *)
(* queue, worker, events or handlers: a job is QUEUED, may be RUNNING,     *)
(* gets one verdict and keeps it; the session is ACTIVE until the job has  *)
(* its verdict or the user closes it, and stays CLOSED.                    *)
(*                                                                         *)
(* Three facts about a session, which only ever become true, are given     *)
(* from outside and mark where the promise is weaker: its entry was handed *)
(* out again (its verdict may be revised), its user closed it, a report    *)
(* about it was lost.                                                      *)
(***************************************************************************)
EXTENDS Sessions

VARIABLES
  job, session,
  rerun,    \* sessions whose entry BullMQ handed out again
  asked,    \* sessions their user has closed
  lost      \* sessions a report about which reached no row

lvars == <<job, session, rerun, asked, lost>>

Verdict == {"SUCCEEDED", "FAILED"}

LInit ==
  /\ job = [s \in Session |-> "none"]
  /\ session = [s \in Session |-> "none"]
  /\ rerun = {}
  /\ asked = {}
  /\ lost = {}

(* The status a job may get next.                                          *)
Successors(s) ==
  CASE job[s] = "none"     -> {"QUEUED"}
    [] job[s] = "QUEUED"   -> {"RUNNING"} \cup Verdict
    [] job[s] = "RUNNING"  -> Verdict
    [] job[s] \in Verdict  -> IF s \in rerun THEN Verdict ELSE {}

JobStep(s) ==
  /\ \E status \in Successors(s) : job' = [job EXCEPT ![s] = status]
  /\ UNCHANGED session

Open(s) ==
  /\ job[s] # "none"
  /\ session[s] = "none"
  /\ session' = [session EXCEPT ![s] = "ACTIVE"]
  /\ UNCHANGED job

Close(s) ==
  /\ session[s] = "ACTIVE"
  /\ job[s] \in Verdict \/ s \in asked' \/ s \in lost
  /\ session' = [session EXCEPT ![s] = "CLOSED"]
  /\ UNCHANGED job

LNext ==
  /\ rerun \subseteq rerun'
  /\ asked \subseteq asked'
  /\ lost \subseteq lost'
  /\ \/ \E s \in Session : JobStep(s) \/ Open(s) \/ Close(s)
     \/ UNCHANGED <<job, session>>

LSpec == LInit /\ [][LNext]_lvars

=============================================================================
