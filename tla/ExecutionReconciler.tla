------------------------ MODULE ExecutionReconciler ------------------------
(***************************************************************************)
(* The API's half of a CLOUD session: the Job and Session rows and         *)
(* everything that writes them.  JobsService.create makes them and puts    *)
(* the entry on the queue; ExecutionReconciler writes the worker's events  *)
(* through; its BullMQ `failed` listener is a backstop; SessionsService    *)
(* closes a session for the user and asks the worker to kill it.           *)
(*                                                                         *)
(* Each database write is one action, and every await is a point where     *)
(* other requests and handlers run: the event handlers are not serialised  *)
(* (`void this.onEvent(payload)`), so the writes of two events interleave. *)
(* Redis pub/sub keeps nothing: what was published while the API is down   *)
(* or had not been written when it died is never written.                  *)
(*                                                                         *)
(* The worker is an arbitrary environment here: any event at any time, any *)
(* move of the queue.                                                      *)
(***************************************************************************)
EXTENDS ExecEvents

CONSTANT MaxApiFaults   \* bound: how often the API dies or a handler's write fails

ASSUME ApiAssumption == MaxApiFaults \in Nat

VARIABLES
  queue, events, kills,   \* Redis, shared with the worker
  jobRow,       \* Job.status of the CLOUD job
  sessRow,      \* Session.status
  linked,       \* the sessions whose Job.queueJobId is written
  creating,     \* where the request that creates the session waits
  closing,      \* close requests between their write and their kill signal
  handler,      \* where the handler of each event waits
  failSeen,     \* the queue failures the listener has handled
  api, apiFaults,
  (* history *)
  missed,       \* sessions with a report that reached no row
  userClosed    \* sessions the user has closed

rvars == <<queue, events, kills, jobRow, sessRow, linked, creating, closing,
           handler, failSeen, api, apiFaults, missed, userClosed>>

QueueState == {"none", "wait", "active", "completed", "failed"}
Terminal == {"SUCCEEDED", "FAILED"}
JobStatus == {"QUEUED", "RUNNING"} \cup Terminal

(* The write each creating request is about to make, then done or failed.  *)
Creating == {"job", "session", "enqueue", "link", "done", "failed"}

TypeOK ==
  /\ queue \in [Session -> QueueState]
  /\ events \subseteq Event
  /\ kills \subseteq Session
  /\ jobRow \in [Session -> JobStatus \cup {"none"}]
  /\ sessRow \in [Session -> {"none", "ACTIVE", "CLOSED"}]
  /\ linked \subseteq Session
  /\ creating \in [Session -> Creating]
  /\ closing \subseteq Session
  /\ handler \in [Event -> {"none", "session", "done"}]
  /\ failSeen \subseteq Session
  /\ api \in {"up", "down"}
  /\ apiFaults \in 0..MaxApiFaults
  /\ missed \subseteq Session
  /\ userClosed \subseteq Session

Init ==
  /\ queue = [s \in Session |-> "none"]
  /\ events = {}
  /\ kills = {}
  /\ jobRow = [s \in Session |-> "none"]
  /\ sessRow = [s \in Session |-> "none"]
  /\ linked = {}
  /\ creating = [s \in Session |-> "job"]
  /\ closing = {}
  /\ handler = [e \in Event |-> "none"]
  /\ failSeen = {}
  /\ api = "up"
  /\ apiFaults = 0
  /\ missed = {}
  /\ userClosed = {}

redis    == <<queue, events, kills>>
rows     == <<jobRow, sessRow, linked>>
requests == <<creating, closing, userClosed>>
process  == <<api, apiFaults>>

(* The database or Redis refuses one write and the code swallows the error *)
(* (`.catch(() => undefined)`).                                            *)
Swallowed ==
  /\ apiFaults < MaxApiFaults
  /\ apiFaults' = apiFaults + 1
  /\ UNCHANGED api

-----------------------------------------------------------------------------
(* JobsService.create, past the quota and the routing decision: four       *)
(* writes, no transaction, no compensation.                                *)

Creates(s, from, to) ==
  /\ api = "up"
  /\ creating[s] = from
  /\ creating' = [creating EXCEPT ![s] = to]

CreateJob(s) ==
  /\ Creates(s, "job", "session")
  /\ jobRow' = [jobRow EXCEPT ![s] = "QUEUED"]
  /\ UNCHANGED <<redis, sessRow, linked, closing, userClosed, handler,
                 failSeen, process, missed>>

OpenSession(s) ==
  /\ Creates(s, "session", "enqueue")
  /\ sessRow' = [sessRow EXCEPT ![s] = "ACTIVE"]
  /\ UNCHANGED <<redis, jobRow, linked, closing, userClosed, handler,
                 failSeen, process, missed>>

AddToQueue(s) ==
  /\ Creates(s, "enqueue", "link")
  /\ queue' = [queue EXCEPT ![s] = "wait"]
  /\ UNCHANGED <<events, kills, rows, closing, userClosed, handler,
                 failSeen, process, missed>>

LinkQueueJob(s) ==
  /\ Creates(s, "link", "done")
  /\ linked' = linked \cup {s}
  /\ UNCHANGED <<redis, jobRow, sessRow, closing, userClosed, handler,
                 failSeen, process, missed>>

(* A write throws: the request answers 500 and its earlier writes stay.    *)
CreateThrows(s) ==
  /\ \E from \in {"session", "enqueue", "link"} : Creates(s, from, "failed")
  /\ UNCHANGED <<redis, rows, closing, userClosed, handler, failSeen,
                 process, missed>>

-----------------------------------------------------------------------------
(* ExecutionReconciler.onEvent: the job row first, then the session row.   *)

(* Faulty variants of StatusAfter: a status the schema does not have;      *)
(* `update` where the code has updateMany on QUEUED rows; session-exited   *)
(* guarded by RUNNING, as if session-started were always written first.    *)
StatusAfterOutsideSchema(e, status) ==
  IF e.type = "session-error" THEN "ERROR" ELSE "RUNNING"

StatusAfterUnguarded(e, status) ==
  CASE e.type = "session-started" -> "RUNNING"
    [] e.type = "session-exited" ->
         IF e.code = 0 THEN "SUCCEEDED" ELSE "FAILED"
    [] e.type = "session-error" -> "FAILED"

StatusAfterInOrder(e, status) ==
  CASE e.type = "session-started" ->
         IF status = "QUEUED" THEN "RUNNING" ELSE status
    [] e.type = "session-exited" ->
         IF status # "RUNNING" THEN status
         ELSE IF e.code = 0 THEN "SUCCEEDED" ELSE "FAILED"
    [] e.type = "session-error" -> "FAILED"

(* What the handler of e makes of a job's status.                          *)
StatusAfter(e, status) ==
  CASE e.type = "session-started" ->
         IF status = "QUEUED" THEN "RUNNING" ELSE status
    [] e.type = "session-exited" ->
         IF e.code = 0 THEN "SUCCEEDED" ELSE "FAILED"
    [] e.type = "session-error" -> "FAILED"

(* markClosed touches ACTIVE rows only; markStarted leaves the status.     *)
SessionAfter(e, status) ==
  IF Ending(e) /\ status = "ACTIVE" THEN "CLOSED" ELSE status

(* Faulty variant of WriteJob: the session row is written first.           *)
WriteSessionFirst(e) ==
  /\ api = "up"
  /\ e \in events
  /\ handler[e] = "none"
  /\ handler' = [handler EXCEPT ![e] = "session"]
  /\ sessRow' = [sessRow EXCEPT ![e.sess] = SessionAfter(e, @)]
  /\ UNCHANGED <<redis, jobRow, linked, requests, failSeen, process, missed>>

WriteJob(e) ==
  /\ api = "up"
  /\ e \in events
  /\ handler[e] = "none"
  /\ handler' = [handler EXCEPT ![e] = "session"]
  /\ jobRow' = [jobRow EXCEPT ![e.sess] = StatusAfter(e, @)]
  /\ UNCHANGED <<redis, sessRow, linked, requests, failSeen, process, missed>>

WriteSession(e) ==
  /\ api = "up"
  /\ handler[e] = "session"
  /\ handler' = [handler EXCEPT ![e] = "done"]
  /\ sessRow' = [sessRow EXCEPT ![e.sess] = SessionAfter(e, @)]
  /\ UNCHANGED <<redis, jobRow, linked, requests, failSeen, process, missed>>

(* The write is refused: on to the handler's next one.                     *)
WriteSwallowed(e) ==
  /\ api = "up"
  /\ e \in events
  /\ \/ handler[e] = "none" /\ handler' = [handler EXCEPT ![e] = "session"]
     \/ handler[e] = "session" /\ handler' = [handler EXCEPT ![e] = "done"]
  /\ missed' = missed \cup {e.sess}
  /\ Swallowed
  /\ UNCHANGED <<redis, rows, requests, failSeen>>

(* A failure that finds no row is lost, unless the worker has reported an  *)
(* end itself, whose handler finds the rows by the session.                *)
Unreported(s) == {t \in {s} : ~ \E e \in events : e.sess = t /\ Ending(e)}

(* Faulty variant of OnQueueFailed: it forgets jobs that are still QUEUED. *)
OnQueueFailedRunning(s) ==
  /\ api = "up"
  /\ queue[s] = "failed"
  /\ s \notin failSeen
  /\ failSeen' = failSeen \cup {s}
  /\ IF s \in linked
     THEN /\ jobRow' = [jobRow EXCEPT ![s] =
                          IF @ = "RUNNING" THEN "FAILED" ELSE @]
          /\ UNCHANGED missed
     ELSE missed' = missed \cup Unreported(s) /\ UNCHANGED jobRow
  /\ UNCHANGED <<redis, sessRow, linked, requests, handler, process>>

(* onQueueFailed finds the row by queueJobId.                              *)
OnQueueFailed(s) ==
  /\ api = "up"
  /\ queue[s] = "failed"
  /\ s \notin failSeen
  /\ failSeen' = failSeen \cup {s}
  /\ IF s \in linked
     THEN /\ jobRow' = [jobRow EXCEPT ![s] =
                          IF @ \in {"QUEUED", "RUNNING"} THEN "FAILED" ELSE @]
          /\ UNCHANGED missed
     ELSE missed' = missed \cup Unreported(s) /\ UNCHANGED jobRow
  /\ UNCHANGED <<redis, sessRow, linked, requests, handler, process>>

FailureSwallowed(s) ==
  /\ api = "up"
  /\ queue[s] = "failed"
  /\ s \notin failSeen
  /\ failSeen' = failSeen \cup {s}
  /\ missed' = missed \cup {s}
  /\ Swallowed
  /\ UNCHANGED <<redis, rows, requests, handler>>

-----------------------------------------------------------------------------
(* SessionsService.close: the row, then the kill signal.                   *)

CloseSession(s) ==
  /\ api = "up"
  /\ sessRow[s] # "none"
  /\ sessRow' = [sessRow EXCEPT ![s] = "CLOSED"]
  /\ closing' = closing \cup {s}
  /\ userClosed' = userClosed \cup {s}
  /\ UNCHANGED <<redis, jobRow, linked, creating, handler, failSeen,
                 process, missed>>

(* markClosed's write is refused: the session is killed all the same.      *)
CloseSwallowed(s) ==
  /\ api = "up"
  /\ sessRow[s] # "none"
  /\ closing' = closing \cup {s}
  /\ userClosed' = userClosed \cup {s}
  /\ Swallowed
  /\ UNCHANGED <<redis, rows, creating, handler, failSeen, missed>>

KillSession(s) ==
  /\ api = "up"
  /\ s \in closing
  /\ closing' = closing \ {s}
  /\ kills' = kills \cup {s}
  /\ UNCHANGED <<queue, events, rows, creating, userClosed, handler,
                 failSeen, process, missed>>

KillSwallowed(s) ==
  /\ api = "up"
  /\ s \in closing
  /\ closing' = closing \ {s}
  /\ Swallowed
  /\ UNCHANGED <<redis, rows, creating, userClosed, handler, failSeen, missed>>

-----------------------------------------------------------------------------
(* Death and restart of the API process                                    *)

Unwritten == {e \in events : handler[e] # "done"}
UnseenFailures == {s \in Session : queue[s] = "failed"} \ failSeen

ApiDies ==
  /\ api = "up"
  /\ apiFaults < MaxApiFaults
  /\ apiFaults' = apiFaults + 1
  /\ api' = "down"
  /\ creating' = [s \in Session |->
                    IF creating[s] \in {"session", "enqueue", "link"}
                    THEN "failed" ELSE creating[s]]
  /\ closing' = {}
  /\ UNCHANGED <<redis, rows, userClosed, handler, failSeen, missed>>

(* onModuleInit subscribes afresh; QueueEvents starts at the stream's end. *)
ApiBoots ==
  /\ api = "down"
  /\ api' = "up"
  /\ handler' = [e \in Event |-> IF e \in events THEN "done" ELSE handler[e]]
  /\ failSeen' = failSeen \cup UnseenFailures
  /\ missed' = missed \cup {e.sess : e \in Unwritten} \cup UnseenFailures
  /\ UNCHANGED <<redis, rows, requests, apiFaults>>

-----------------------------------------------------------------------------
Service ==
  \/ \E s \in Session :
       \/ CreateJob(s) \/ OpenSession(s) \/ AddToQueue(s) \/ LinkQueueJob(s)
       \/ CreateThrows(s) \/ OnQueueFailed(s) \/ FailureSwallowed(s)
       \/ CloseSession(s) \/ CloseSwallowed(s)
       \/ KillSession(s) \/ KillSwallowed(s)
  \/ \E e \in Event : WriteJob(e) \/ WriteSession(e) \/ WriteSwallowed(e)
  \/ ApiDies \/ ApiBoots

(* What the worker and BullMQ may do to the shared state.                  *)
Publishes(e) ==
  /\ queue[e.sess] # "none"
  /\ events' = events \cup {e}
  /\ UNCHANGED <<queue, kills>>

MovesEntry(s) ==
  /\ queue[s] # "none"
  /\ \E q \in QueueState \ {"none"} : queue' = [queue EXCEPT ![s] = q]
  /\ UNCHANGED <<events, kills>>
TakesKills == kills' \in SUBSET kills /\ UNCHANGED <<queue, events>>

Environment ==
  /\ \/ \E e \in Event : Publishes(e)
     \/ \E s \in Session : MovesEntry(s)
     \/ TakesKills
  /\ UNCHANGED <<rows, requests, handler, failSeen, process, missed>>

Next == Service \/ Environment

Spec == Init /\ [][Next]_rvars

-----------------------------------------------------------------------------
(* Properties                                                              *)

(* execution-reconciler.service.ts:76-83: whatever the worker publishes,   *)
(* in whatever order the handlers' writes land, a job that ended is never  *)
(* shown QUEUED or RUNNING again, and a closed session never reopens.      *)
NothingReopens ==
  \A s \in Session :
    /\ jobRow[s] \in Terminal => jobRow'[s] \in Terminal
    /\ jobRow[s] = "RUNNING" => jobRow'[s] # "QUEUED"
    /\ sessRow[s] = "CLOSED" => sessRow'[s] = "CLOSED"

RecordsNeverReopen == [][NothingReopens]_rvars

(* execution-reconciler.service.ts:85-105: a session that is closed, not   *)
(* by its user, has a job with a verdict: the rows of one handler are      *)
(* written in the order a reader of both can rely on.                      *)
ClosedHasVerdict ==
  \A s \in Session \ (userClosed \cup missed) :
    sessRow[s] = "CLOSED" => jobRow[s] \in Terminal

(* What makes the two inductive: a row is written before its creating      *)
(* request moves on, nothing is published about a session that is not      *)
(* enqueued, and an ending event's handler that has come to its session    *)
(* row has given the job a verdict or failed to.                           *)
CreationOrder ==
  /\ \A s \in Session :
       /\ creating[s] = "job" => jobRow[s] = "none"
       /\ creating[s] \in {"job", "session"} => sessRow[s] = "none"
       /\ creating[s] \in {"job", "session", "enqueue"} => queue[s] = "none"
  /\ \A e \in events : queue[e.sess] # "none"

VerdictFirst ==
  \A e \in Event :
    handler[e] = "session" /\ Ending(e)
      => jobRow[e.sess] \in Terminal \/ e.sess \in missed

RowsInv == CreationOrder /\ VerdictFirst /\ ClosedHasVerdict

(* What the rows say once everything was handled, for whoever composes     *)
(* this module: the rows of an enqueued session exist, and what a handler  *)
(* or the listener is through with is in the rows, or was missed.          *)
RowsExist ==
  \A s \in Session :
    /\ creating[s] # "job" => jobRow[s] # "none"
    /\ creating[s] \in {"enqueue", "link", "done"} \/ queue[s] # "none"
         => sessRow[s] # "none"

HandledIsWritten ==
  /\ \A e \in Event :
       /\ handler[e] # "none" => e \in events
       /\ Ending(e) /\ handler[e] # "none" =>
            jobRow[e.sess] \in Terminal \/ e.sess \in missed
       /\ Ending(e) /\ handler[e] = "done" =>
            sessRow[e.sess] = "CLOSED" \/ e.sess \in missed
  /\ \A s \in failSeen :
       \/ jobRow[s] \in Terminal \/ s \in missed
       \/ \E e \in events : e.sess = s /\ Ending(e)

RecordsInv == RowsExist /\ HandledIsWritten

=============================================================================
