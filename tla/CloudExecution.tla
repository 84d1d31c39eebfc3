--------------------------- MODULE CloudExecution ---------------------------
(***************************************************************************)
(* The CLOUD path end to end: the API (ExecutionReconciler) and the        *)
(* execution worker (ExecutionWorker, with its PTY gateway), joined by     *)
(* what they share in Redis: the BullMQ queue, the lifecycle events and    *)
(* the kill signals.  Each component is instantiated with the shared       *)
(* variables under their own names; a step of one leaves the private state *)
(* of the other alone.                                                     *)
(*                                                                         *)
(* What each module leaves to its environment the other one does: the API  *)
(* enqueues and sends kills, the worker publishes, moves the queue and     *)
(* takes kills.                                                            *)
(***************************************************************************)
EXTENDS ExecEvents, FiniteSets

CONSTANTS Conn, Paid, Slots, MaxRestarts, MaxFaults, MaxApiFaults

ASSUME CloudAssumption ==
  /\ Paid \subseteq Session
  /\ Slots \in Nat \ {0}
  /\ MaxRestarts \in Nat
  /\ MaxFaults \in Nat
  /\ MaxApiFaults \in Nat

VARIABLES
  queue, events, kills,
  stalls, container, life, reap, doomed, pc, registry, connectTimer, exitCode,
  dropped, stuck, restarts, faults, conn,
  jobRow, sessRow, linked, creating, closing, handler, failSeen, api,
  apiFaults, missed, userClosed

Worker == INSTANCE ExecutionWorker
Api == INSTANCE ExecutionReconciler

shared == <<queue, events, kills>>
workerOnly == <<stalls, container, life, reap, doomed, pc, registry,
                connectTimer, exitCode, dropped, stuck, restarts, faults, conn>>
apiOnly == <<jobRow, sessRow, linked, creating, closing, handler, failSeen,
             api, apiFaults, missed, userClosed>>
vars == <<shared, workerOnly, apiOnly>>

Init == Worker!Init /\ Api!Init

WorkerStep == Worker!WorkerNext /\ UNCHANGED apiOnly
ApiStep == Api!Service /\ UNCHANGED workerOnly

Next == WorkerStep \/ ApiStep

Spec == Init /\ [][Next]_vars

(* The least that is asked of the two processes: while one has something   *)
(* to do that does not wait for a user, it does something.  The API need   *)
(* not finish creating a session.                                          *)
WorkerProceeds ==
  /\ \/ Worker!Boot
     \/ life = "closing" /\ Worker!Die
     \/ \E s \in Session : Worker!Take(s) \/ Worker!Proceeds(s)
  /\ UNCHANGED apiOnly

ApiProceeds ==
  /\ \/ Api!ApiBoots
     \/ \E e \in Event : Api!WriteJob(e) \/ Api!WriteSession(e)
     \/ \E s \in Session : Api!OnQueueFailed(s)
  /\ UNCHANGED workerOnly

Fairness == WF_vars(WorkerProceeds) /\ WF_vars(ApiProceeds)

FairSpec == Spec /\ Fairness

-----------------------------------------------------------------------------
(* Properties                                                              *)

Lifecycle == INSTANCE SessionLifecycle
  WITH job <- jobRow, session <- sessRow, asked <- userClosed, lost <- missed,
       rerun <- {s \in Session : stalls[s] > 0}

(* The rows the API serves evolve as SessionLifecycle promises, whatever   *)
(* crashes, stalls, shuts down or interleaves: in particular a verdict     *)
(* changes only for a session whose entry was handed out again.            *)
RecordsFollowLifecycle == Lifecycle!LSpec

(* Everything that will be said about s has been said and handled.         *)
Quiet(s) ==
  /\ queue[s] \in {"completed", "failed"}
  /\ creating[s] = "done"
  /\ \A e \in events : e.sess = s => handler[e] = "done"
  /\ queue[s] = "failed" => s \in failSeen

(* execution-reconciler.service.ts:17-19: when the dust has settled and no *)
(* report was lost, the job has a verdict, and its session is closed if    *)
(* any run of it lived to report an end.  If none did, only the BullMQ     *)
(* backstop speaks, which leaves the session row as it is.                 *)
QuietRecordsAreFinal ==
  \A s \in Session \ (missed \cup dropped) :
    Quiet(s) =>
      /\ jobRow[s] \in {"SUCCEEDED", "FAILED"}
      /\ (\E e \in events : e.sess = s /\ Ending(e)) => sessRow[s] = "CLOSED"

(* What RecordsFollowLifecycle and QuietRecordsAreFinal rest on besides    *)
(* what each component keeps: a verdict in a row is that of an event which *)
(* was handled, or the backstop's for an entry that failed.                *)
OneSource ==
  \A s \in Session : jobRow[s] \in Api!Terminal =>
    \/ \E e \in events : e.sess = s /\ Ending(e) /\ handler[e] # "none"
    \/ jobRow[s] = "FAILED" /\ queue[s] = "failed"

(* sessions.service.ts:90, closing tells the cloud worker to tear the      *)
(* container down now: once every kill of a closed session was delivered   *)
(* it holds no slot.  Violated: see the README.                            *)
ClosedSessionHoldsNoSlot ==
  \A s \in userClosed :
    life = "up" /\ s \notin closing \cup kills /\ apiFaults = 0 /\ restarts = 0
      => pc[s] # "blocked"

(* The job of every enqueued session gets its verdict in the end, unless a *)
(* report is lost on the way.                                              *)
EnqueuedJobsEnd ==
  \A s \in Session :
    queue[s] # "none" ~> jobRow[s] \in {"SUCCEEDED", "FAILED"}
                         \/ s \in missed \cup dropped

=============================================================================
