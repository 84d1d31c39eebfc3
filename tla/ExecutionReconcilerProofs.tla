--------------------- MODULE ExecutionReconcilerProofs ---------------------
(***************************************************************************)
(* What TLAPS proves of ExecutionReconciler: for any number of sessions,   *)
(* any number of faults and a worker that publishes any events in any      *)
(* order.                                                                  *)
(***************************************************************************)
EXTENDS ExecutionReconciler, TLAPS

-----------------------------------------------------------------------------
(* What a handler makes of a status                                        *)

LEMMA EventCases ==
  ASSUME NEW e \in Event
  PROVE  /\ e.sess \in Session
         /\ e.type \in {"session-started", "session-exited", "session-error"}
BY DEF Event

LEMMA StatusAfterFacts ==
  ASSUME NEW e \in Event, NEW status \in JobStatus \cup {"none"}
  PROVE  /\ StatusAfter(e, status) \in JobStatus \cup {"none"}
         /\ Ending(e) => StatusAfter(e, status) \in Terminal
         /\ status \in Terminal => StatusAfter(e, status) \in Terminal
         /\ status = "RUNNING" => StatusAfter(e, status) # "QUEUED"
         /\ status # "none" => StatusAfter(e, status) # "none"
<1>1. CASE e.type = "session-started"
  BY <1>1 DEF StatusAfter, Ending, JobStatus, Terminal
<1>2. CASE e.type = "session-exited"
  BY <1>2 DEF StatusAfter, Ending, JobStatus, Terminal
<1>3. CASE e.type = "session-error"
  BY <1>3 DEF StatusAfter, Ending, JobStatus, Terminal
<1>4. QED
  BY <1>1, <1>2, <1>3, EventCases

LEMMA SessionAfterFacts ==
  ASSUME NEW e \in Event, NEW status \in {"none", "ACTIVE", "CLOSED"}
  PROVE  /\ SessionAfter(e, status) \in {"none", "ACTIVE", "CLOSED"}
         /\ status = "CLOSED" => SessionAfter(e, status) = "CLOSED"
         /\ SessionAfter(e, status) = "CLOSED" => status = "CLOSED" \/ Ending(e)
BY DEF SessionAfter

-----------------------------------------------------------------------------
(* Type correctness                                                        *)

LEMMA TypeKept ==
  ASSUME TypeOK, [Next]_rvars
  PROVE  TypeOK'
<1> USE ApiAssumption
<1>1. ASSUME NEW s \in Session,
             \/ CreateJob(s) \/ OpenSession(s) \/ AddToQueue(s)
             \/ LinkQueueJob(s) \/ CreateThrows(s)
      PROVE  TypeOK'
  BY <1>1 DEF TypeOK, CreateJob, OpenSession, AddToQueue, LinkQueueJob, CreateThrows,
              Creates, Creating, QueueState, JobStatus, redis, rows, process
<1>2. ASSUME NEW s \in Session, OnQueueFailed(s) \/ FailureSwallowed(s) PROVE TypeOK'
  BY <1>2 DEF TypeOK, OnQueueFailed, Unreported, FailureSwallowed, Swallowed, JobStatus, Terminal,
              redis, rows, requests, process
<1>3. ASSUME NEW s \in Session,
             \/ CloseSession(s) \/ CloseSwallowed(s)
             \/ KillSession(s) \/ KillSwallowed(s)
      PROVE  TypeOK'
  BY <1>3 DEF TypeOK, CloseSession, CloseSwallowed, KillSession, KillSwallowed, Swallowed,
              redis, rows, process
<1>4. ASSUME NEW e \in Event, WriteJob(e) PROVE TypeOK'
  <2>1. jobRow[e.sess] \in JobStatus \cup {"none"}
    BY EventCases DEF TypeOK
  <2>2. StatusAfter(e, jobRow[e.sess]) \in JobStatus \cup {"none"}
    BY <2>1, StatusAfterFacts
  <2>3. jobRow' = [jobRow EXCEPT ![e.sess] = StatusAfter(e, jobRow[e.sess])]
    BY <1>4 DEF WriteJob
  <2>4. jobRow' \in [Session -> JobStatus \cup {"none"}]
    BY <2>2, <2>3 DEF TypeOK
  <2>5. QED
    BY <1>4, <2>4 DEF TypeOK, WriteJob, redis, requests, process
<1>5. ASSUME NEW e \in Event, WriteSession(e) PROVE TypeOK'
  <2>1. sessRow[e.sess] \in {"none", "ACTIVE", "CLOSED"}
    BY EventCases DEF TypeOK
  <2>2. SessionAfter(e, sessRow[e.sess]) \in {"none", "ACTIVE", "CLOSED"}
    BY <2>1, SessionAfterFacts
  <2>3. sessRow' = [sessRow EXCEPT ![e.sess] = SessionAfter(e, sessRow[e.sess])]
    BY <1>5 DEF WriteSession
  <2>4. sessRow' \in [Session -> {"none", "ACTIVE", "CLOSED"}]
    BY <2>2, <2>3 DEF TypeOK
  <2>5. QED
    BY <1>5, <2>4 DEF TypeOK, WriteSession, redis, requests, process
<1>6. ASSUME NEW e \in Event, WriteSwallowed(e) PROVE TypeOK'
  BY <1>6, EventCases DEF TypeOK, WriteSwallowed, Swallowed, redis, rows, requests
<1>7. CASE ApiDies
  BY <1>7 DEF TypeOK, ApiDies, Creating, redis, rows
<1>8. CASE ApiBoots
  BY <1>8, EventCases DEF TypeOK, ApiBoots, Unwritten, UnseenFailures, redis, rows, requests
<1>9. CASE Environment
  BY <1>9 DEF TypeOK, Environment, Publishes, MovesEntry, TakesKills, rows, requests, process
<1>10. CASE UNCHANGED rvars
  BY <1>10 DEF TypeOK, rvars
<1>11. QED
  BY <1>1, <1>2, <1>3, <1>4, <1>5, <1>6, <1>7, <1>8, <1>9, <1>10 DEF Next, Service

LEMMA TypeInit == Init => TypeOK
BY ApiAssumption DEF Init, TypeOK, QueueState, JobStatus, Creating

THEOREM TypeInvariant == Spec => []TypeOK
BY TypeInit, TypeKept, PTL DEF Spec

-----------------------------------------------------------------------------
(* The rows                                                                *)

(* CreateJob and OpenSession write a fresh row, every other write keeps a  *)
(* verdict and a closed session.                                           *)
LEMMA StepReopensNothing ==
  ASSUME TypeOK, CreationOrder, [Next]_rvars
  PROVE  NothingReopens
<1>1. ASSUME NEW s \in Session, CreateJob(s) PROVE NothingReopens
  BY <1>1 DEF NothingReopens, CreateJob, Creates, CreationOrder, TypeOK, Terminal
<1>2. ASSUME NEW s \in Session, OpenSession(s) PROVE NothingReopens
  BY <1>2 DEF NothingReopens, OpenSession, Creates, CreationOrder, TypeOK
<1>3. ASSUME NEW s \in Session, OnQueueFailed(s) PROVE NothingReopens
  BY <1>3 DEF NothingReopens, OnQueueFailed, TypeOK, Terminal
<1>4. ASSUME NEW s \in Session, CloseSession(s) PROVE NothingReopens
  BY <1>4 DEF NothingReopens, CloseSession, TypeOK
<1>5. ASSUME NEW e \in Event, WriteJob(e) PROVE NothingReopens
  <2>1. /\ jobRow[e.sess] \in JobStatus \cup {"none"}
        /\ jobRow' = [jobRow EXCEPT ![e.sess] = StatusAfter(e, jobRow[e.sess])]
        /\ sessRow' = sessRow
    BY <1>5, EventCases DEF TypeOK, WriteJob
  <2>2. QED
    BY <2>1, StatusAfterFacts DEF NothingReopens, TypeOK
<1>6. ASSUME NEW e \in Event, WriteSession(e) PROVE NothingReopens
  <2>1. /\ sessRow[e.sess] \in {"none", "ACTIVE", "CLOSED"}
        /\ sessRow' = [sessRow EXCEPT ![e.sess] = SessionAfter(e, sessRow[e.sess])]
        /\ jobRow' = jobRow
    BY <1>6, EventCases DEF TypeOK, WriteSession
  <2>2. QED
    BY <2>1, SessionAfterFacts DEF NothingReopens, TypeOK
<1>7. CASE UNCHANGED <<jobRow, sessRow>>
  BY <1>7 DEF NothingReopens
<1>8. QED
  BY <1>1, <1>2, <1>3, <1>4, <1>5, <1>6, <1>7
  DEF Next, Service, Environment, rvars, rows, AddToQueue, LinkQueueJob, CreateThrows,
      FailureSwallowed, CloseSwallowed, KillSession, KillSwallowed, WriteSwallowed,
      ApiDies, ApiBoots

LEMMA HistoryGrows ==
  ASSUME [Next]_rvars
  PROVE  missed \subseteq missed' /\ userClosed \subseteq userClosed'
BY DEF Next, Service, Environment, rvars, requests, CreateJob, OpenSession, AddToQueue,
       LinkQueueJob, CreateThrows, OnQueueFailed, FailureSwallowed, CloseSession,
       CloseSwallowed, KillSession, KillSwallowed, WriteJob, WriteSession, WriteSwallowed,
       ApiDies, ApiBoots

(* Only a user and the handler of an ending event close a session.         *)
LEMMA WhoCloses ==
  ASSUME TypeOK, CreationOrder, [Next]_rvars, NEW s \in Session,
         sessRow[s] # "CLOSED", sessRow'[s] = "CLOSED"
  PROVE  \/ s \in userClosed'
         \/ \E e \in Event : e.sess = s /\ Ending(e) /\ handler[e] = "session"
<1>1. CASE sessRow' = sessRow
  BY <1>1
<1>2. ASSUME NEW t \in Session, OpenSession(t) PROVE FALSE
  BY <1>2 DEF OpenSession, TypeOK
<1>3. ASSUME NEW t \in Session, CloseSession(t) PROVE s \in userClosed'
  BY <1>3 DEF CloseSession, TypeOK
<1>4. ASSUME NEW e \in Event, WriteSession(e)
      PROVE  e.sess = s /\ Ending(e) /\ handler[e] = "session"
  <2>1. /\ sessRow[e.sess] \in {"none", "ACTIVE", "CLOSED"}
        /\ sessRow' = [sessRow EXCEPT ![e.sess] = SessionAfter(e, sessRow[e.sess])]
        /\ handler[e] = "session"
    BY <1>4, EventCases DEF TypeOK, WriteSession
  <2>2. QED
    BY <2>1, SessionAfterFacts DEF TypeOK
<1>5. QED
  BY <1>1, <1>2, <1>3, <1>4
  DEF Next, Service, Environment, rvars, rows, CreateJob, AddToQueue, LinkQueueJob,
      CreateThrows, OnQueueFailed, FailureSwallowed, CloseSwallowed, KillSession,
      KillSwallowed, WriteJob, WriteSwallowed, ApiDies, ApiBoots

(* A handler comes to its session row after its job write, done or failed. *)
LEMMA WhoReachesSession ==
  ASSUME TypeOK, [Next]_rvars, NEW e \in Event, Ending(e),
         handler[e] # "session", handler'[e] = "session"
  PROVE  jobRow'[e.sess] \in Terminal \/ e.sess \in missed'
<1>1. CASE handler' = handler
  BY <1>1
<1>2. ASSUME NEW f \in Event, WriteJob(f) PROVE jobRow'[e.sess] \in Terminal
  <2>1. /\ jobRow[f.sess] \in JobStatus \cup {"none"}
        /\ f.sess \in Session
        /\ jobRow' = [jobRow EXCEPT ![f.sess] = StatusAfter(f, jobRow[f.sess])]
        /\ handler' = [handler EXCEPT ![f] = "session"]
    BY <1>2, EventCases DEF TypeOK, WriteJob
  <2>2. e = f
    BY <2>1 DEF TypeOK
  <2>3. StatusAfter(e, jobRow[e.sess]) \in Terminal
    BY <2>1, <2>2, StatusAfterFacts
  <2>4. QED
    BY <2>1, <2>2, <2>3 DEF TypeOK
<1>3. ASSUME NEW f \in Event, WriteSwallowed(f) PROVE e.sess \in missed'
  BY <1>3 DEF WriteSwallowed, TypeOK
<1>4. ASSUME NEW f \in Event, WriteSession(f) PROVE FALSE
  BY <1>4 DEF WriteSession, TypeOK
<1>5. CASE ApiBoots
  BY <1>5 DEF ApiBoots, TypeOK
<1>6. QED
  BY <1>1, <1>2, <1>3, <1>4, <1>5
  DEF Next, Service, Environment, rvars, CreateJob, OpenSession, AddToQueue, LinkQueueJob,
      CreateThrows, OnQueueFailed, FailureSwallowed, CloseSession, CloseSwallowed,
      KillSession, KillSwallowed, ApiDies

LEMMA CreationOrderKept ==
  ASSUME TypeOK, CreationOrder, [Next]_rvars
  PROVE  CreationOrder'
<1>1. ASSUME NEW s \in Session,
             \/ CreateJob(s) \/ OpenSession(s) \/ AddToQueue(s)
             \/ LinkQueueJob(s) \/ CreateThrows(s)
      PROVE  CreationOrder'
  BY <1>1, EventCases
  DEF CreationOrder, TypeOK, CreateJob, OpenSession, AddToQueue, LinkQueueJob,
      CreateThrows, Creates, redis, rows
<1>2. ASSUME NEW s \in Session, OnQueueFailed(s) PROVE CreationOrder'
  BY <1>2 DEF CreationOrder, TypeOK, OnQueueFailed, redis, requests
<1>3. ASSUME NEW s \in Session, CloseSession(s) PROVE CreationOrder'
  BY <1>3 DEF CreationOrder, TypeOK, CloseSession, redis
<1>4. ASSUME NEW s \in Session,
             \/ FailureSwallowed(s) \/ CloseSwallowed(s) \/ KillSession(s)
             \/ KillSwallowed(s)
      PROVE  CreationOrder'
  BY <1>4 DEF CreationOrder, FailureSwallowed, CloseSwallowed, KillSession, KillSwallowed,
              redis, rows, requests
<1>5. ASSUME NEW e \in Event, WriteJob(e) PROVE CreationOrder'
  BY <1>5, EventCases DEF CreationOrder, TypeOK, WriteJob, redis, requests
<1>6. ASSUME NEW e \in Event, WriteSession(e) PROVE CreationOrder'
  <2>1. SessionAfter(e, "none") = "none"
    BY DEF SessionAfter
  <2>2. QED
    BY <1>6, <2>1, EventCases DEF CreationOrder, TypeOK, WriteSession, redis, requests
<1>7. ASSUME NEW e \in Event, WriteSwallowed(e) PROVE CreationOrder'
  BY <1>7 DEF CreationOrder, WriteSwallowed, redis, rows, requests
<1>8. CASE ApiDies
  BY <1>8 DEF CreationOrder, ApiDies, redis, rows
<1>9. CASE ApiBoots
  BY <1>9 DEF CreationOrder, ApiBoots, redis, rows, requests
<1>10. CASE Environment
  BY <1>10, EventCases
  DEF CreationOrder, TypeOK, Environment, Publishes, MovesEntry, TakesKills, rows, requests
<1>11. CASE UNCHANGED rvars
  BY <1>11 DEF CreationOrder, rvars
<1>12. QED
  BY <1>1, <1>2, <1>3, <1>4, <1>5, <1>6, <1>7, <1>8, <1>9, <1>10, <1>11 DEF Next, Service

LEMMA RowsInvKept ==
  ASSUME TypeOK, RowsInv, [Next]_rvars
  PROVE  RowsInv'
<1>1. CreationOrder'
  BY CreationOrderKept DEF RowsInv
<1>2. NothingReopens
  BY StepReopensNothing DEF RowsInv
<1>3. VerdictFirst'
  <2> SUFFICES ASSUME NEW e \in Event, handler'[e] = "session", Ending(e)
               PROVE  jobRow'[e.sess] \in Terminal \/ e.sess \in missed'
    BY DEF VerdictFirst
  <2>1. CASE handler[e] = "session"
    BY <2>1, <1>2, EventCases, HistoryGrows DEF RowsInv, VerdictFirst, NothingReopens
  <2>2. CASE handler[e] # "session"
    BY <2>2, WhoReachesSession
  <2>3. QED
    BY <2>1, <2>2
<1>4. ClosedHasVerdict'
  <2> SUFFICES ASSUME NEW s \in Session, s \notin userClosed' \cup missed',
                      sessRow'[s] = "CLOSED"
               PROVE  jobRow'[s] \in Terminal
    BY DEF ClosedHasVerdict
  <2>1. s \notin userClosed \cup missed
    BY HistoryGrows
  <2>2. jobRow[s] \in Terminal
    <3>1. CASE sessRow[s] = "CLOSED"
      BY <2>1, <3>1 DEF RowsInv, ClosedHasVerdict
    <3>2. CASE sessRow[s] # "CLOSED"
      BY <2>1, <3>2, WhoCloses DEF RowsInv, VerdictFirst
    <3>3. QED
      BY <3>1, <3>2
  <2>3. QED
    BY <1>2, <2>2 DEF NothingReopens
<1>5. QED
  BY <1>1, <1>3, <1>4 DEF RowsInv

LEMMA RowsInit == Init => RowsInv
BY DEF Init, RowsInv, CreationOrder, VerdictFirst, ClosedHasVerdict

LEMMA RowsInvariant == Spec => [](TypeOK /\ RowsInv)
BY RowsInit, TypeInvariant, RowsInvKept, PTL DEF Spec

(* A session that the system closed has a job with a verdict.              *)
THEOREM VerdictBeforeClose == Spec => []ClosedHasVerdict
BY RowsInvariant, PTL DEF RowsInv

(* A verdict and a closed session are final.                               *)
THEOREM NeverReopen == Spec => RecordsNeverReopen
<1>1. TypeOK /\ RowsInv /\ [Next]_rvars => [NothingReopens]_rvars
  BY StepReopensNothing DEF RowsInv
<1>2. QED
  BY <1>1, RowsInvariant, PTL DEF Spec, RecordsNeverReopen

-----------------------------------------------------------------------------
(* The rows of a session that was enqueued, and what is written in them    *)
(* once its events were handled                                            *)

LEMMA RowsStay ==
  ASSUME TypeOK, [Next]_rvars, NEW s \in Session
  PROVE  /\ jobRow[s] # "none" => jobRow'[s] # "none"
         /\ sessRow[s] # "none" => sessRow'[s] # "none"
<1>1. CASE UNCHANGED <<jobRow, sessRow>>
  BY <1>1
<1>2. ASSUME NEW t \in Session,
             CreateJob(t) \/ OpenSession(t) \/ OnQueueFailed(t) \/ CloseSession(t)
      PROVE  /\ jobRow[s] # "none" => jobRow'[s] # "none"
             /\ sessRow[s] # "none" => sessRow'[s] # "none"
  BY <1>2 DEF TypeOK, CreateJob, OpenSession, OnQueueFailed, CloseSession
<1>3. ASSUME NEW e \in Event, WriteJob(e)
      PROVE  /\ jobRow[s] # "none" => jobRow'[s] # "none"
             /\ sessRow[s] # "none" => sessRow'[s] # "none"
  <2>1. /\ jobRow[e.sess] \in JobStatus \cup {"none"}
        /\ jobRow' = [jobRow EXCEPT ![e.sess] = StatusAfter(e, jobRow[e.sess])]
        /\ sessRow' = sessRow
    BY <1>3, EventCases DEF TypeOK, WriteJob
  <2>2. QED
    BY <2>1, StatusAfterFacts DEF TypeOK
<1>4. ASSUME NEW e \in Event, WriteSession(e)
      PROVE  /\ jobRow[s] # "none" => jobRow'[s] # "none"
             /\ sessRow[s] # "none" => sessRow'[s] # "none"
  BY <1>4 DEF WriteSession, SessionAfter, TypeOK
<1>5. QED
  BY <1>1, <1>2, <1>3, <1>4
  DEF Next, Service, Environment, rvars, rows, AddToQueue, LinkQueueJob, CreateThrows,
      FailureSwallowed, CloseSwallowed, KillSession, KillSwallowed, WriteSwallowed,
      ApiDies, ApiBoots

(* A creating request moves to "enqueue", and an entry gets into the       *)
(* queue, only past the write of the session row.                          *)
LEMMA RowsExistKept ==
  ASSUME TypeOK, CreationOrder, RowsExist, [Next]_rvars
  PROVE  RowsExist'
<1> SUFFICES ASSUME NEW s \in Session
             PROVE  /\ creating'[s] # "job" => jobRow'[s] # "none"
                    /\ creating'[s] \in {"enqueue", "link", "done"} \/ queue'[s] # "none"
                         => sessRow'[s] # "none"
  BY DEF RowsExist
<1>1. /\ creating[s] # "job" => jobRow[s] # "none"
      /\ creating[s] \in {"enqueue", "link", "done"} \/ queue[s] # "none"
           => sessRow[s] # "none"
  BY DEF RowsExist
<1>2. /\ jobRow[s] # "none" => jobRow'[s] # "none"
      /\ sessRow[s] # "none" => sessRow'[s] # "none"
  BY RowsStay
<1>3. CASE UNCHANGED <<creating, queue>>
  BY <1>1, <1>2, <1>3
<1>4. ASSUME NEW t \in Session,
             \/ CreateJob(t) \/ OpenSession(t) \/ AddToQueue(t)
             \/ LinkQueueJob(t) \/ CreateThrows(t)
      PROVE  /\ creating'[s] # "job" => jobRow'[s] # "none"
             /\ creating'[s] \in {"enqueue", "link", "done"} \/ queue'[s] # "none"
                  => sessRow'[s] # "none"
  BY <1>1, <1>4
  DEF TypeOK, CreateJob, OpenSession, AddToQueue, LinkQueueJob, CreateThrows, Creates,
      redis, rows
<1>5. CASE ApiDies
  BY <1>1, <1>5 DEF ApiDies, TypeOK, redis, rows
<1>6. CASE Environment
  BY <1>1, <1>6 DEF Environment, Publishes, MovesEntry, TakesKills, TypeOK, rows, requests
<1>7. QED
  BY <1>3, <1>4, <1>5, <1>6
  DEF Next, Service, rvars, redis, requests, OnQueueFailed, FailureSwallowed, CloseSession,
      CloseSwallowed, KillSession, KillSwallowed, WriteJob, WriteSession, WriteSwallowed,
      ApiBoots

(* A handler that moves handles a published event and writes its row, or   *)
(* misses it.                                                              *)
LEMMA HandlerStep ==
  ASSUME TypeOK, CreationOrder, RowsExist, HandledIsWritten, [Next]_rvars,
         NEW e \in Event, handler'[e] # handler[e]
  PROVE  /\ e \in events
         /\ Ending(e) =>
              /\ jobRow'[e.sess] \in Terminal \/ e.sess \in missed'
              /\ handler'[e] = "done" => sessRow'[e.sess] = "CLOSED" \/ e.sess \in missed'
<1>1. CASE handler' = handler
  BY <1>1
<1>2. ASSUME NEW f \in Event, WriteJob(f)
      PROVE  /\ e = f /\ e \in events
             /\ handler'[e] = "session"
  BY <1>2 DEF WriteJob, TypeOK
<1>3. ASSUME NEW f \in Event, WriteJob(f), Ending(e)
      PROVE  jobRow'[e.sess] \in Terminal \/ e.sess \in missed'
  BY <1>2, <1>3, WhoReachesSession DEF WriteJob
<1>4. ASSUME NEW f \in Event, WriteSession(f)
      PROVE  /\ e \in events
             /\ Ending(e) =>
                  /\ jobRow'[e.sess] \in Terminal \/ e.sess \in missed'
                  /\ sessRow'[e.sess] = "CLOSED"
  <2>1. e = f
    BY <1>4 DEF WriteSession, TypeOK
  <2>2. handler[e] = "session" /\ e \in events /\ e.sess \in Session
    BY <1>4, <2>1, EventCases DEF WriteSession, HandledIsWritten
  <2>3. sessRow[e.sess] \in {"ACTIVE", "CLOSED"}
    BY <2>2 DEF CreationOrder, RowsExist, TypeOK
  <2>4. Ending(e) => sessRow'[e.sess] = "CLOSED"
    BY <1>4, <2>1, <2>2, <2>3 DEF WriteSession, SessionAfter, TypeOK
  <2>5. Ending(e) => jobRow'[e.sess] \in Terminal \/ e.sess \in missed'
    BY <1>4, <2>2 DEF WriteSession, HandledIsWritten
  <2>6. QED
    BY <2>2, <2>4, <2>5
<1>5. ASSUME NEW f \in Event, WriteSwallowed(f) PROVE e \in events /\ e.sess \in missed'
  BY <1>5 DEF WriteSwallowed, TypeOK
<1>6. CASE ApiBoots
  BY <1>6 DEF ApiBoots, Unwritten, TypeOK
<1>7. QED
  BY <1>1, <1>2, <1>3, <1>4, <1>5, <1>6
  DEF Next, Service, Environment, rvars, CreateJob, OpenSession, AddToQueue, LinkQueueJob,
      CreateThrows, OnQueueFailed, FailureSwallowed, CloseSession, CloseSwallowed,
      KillSession, KillSwallowed, ApiDies

(* The listener handles a failure and writes the job's row, which exists   *)
(* since the entry does, or misses it.                                     *)
LEMMA ListenerStep ==
  ASSUME TypeOK, CreationOrder, RowsExist, [Next]_rvars,
         NEW s \in Session, s \notin failSeen, s \in failSeen'
  PROVE  \/ jobRow'[s] \in Terminal \/ s \in missed'
         \/ \E e \in events : e.sess = s /\ Ending(e)
<1>1. CASE failSeen' = failSeen
  BY <1>1
<1>2. ASSUME NEW t \in Session, OnQueueFailed(t)
      PROVE  \/ jobRow'[s] \in Terminal \/ s \in missed'
             \/ \E e \in events : e.sess = s /\ Ending(e)
  <2>1. t = s /\ queue[s] = "failed"
    BY <1>2 DEF OnQueueFailed
  <2>2. jobRow[s] \in {"QUEUED", "RUNNING"} \cup Terminal
    BY <2>1 DEF CreationOrder, RowsExist, TypeOK, JobStatus
  <2>3. QED
    BY <1>2, <2>1, <2>2 DEF OnQueueFailed, Unreported, TypeOK, Terminal
<1>3. ASSUME NEW t \in Session, FailureSwallowed(t) PROVE s \in missed'
  BY <1>3 DEF FailureSwallowed
<1>4. CASE ApiBoots
  BY <1>4 DEF ApiBoots
<1>5. QED
  BY <1>1, <1>2, <1>3, <1>4
  DEF Next, Service, Environment, rvars, CreateJob, OpenSession, AddToQueue, LinkQueueJob,
      CreateThrows, CloseSession, CloseSwallowed, KillSession, KillSwallowed, WriteJob,
      WriteSession, WriteSwallowed, ApiDies

LEMMA RedisGrows ==
  ASSUME [Next]_rvars
  PROVE  events \subseteq events'
BY DEF Next, Service, Environment, Publishes, MovesEntry, TakesKills, rvars, redis,
       CreateJob, OpenSession, AddToQueue, LinkQueueJob, CreateThrows, OnQueueFailed,
       FailureSwallowed, CloseSession, CloseSwallowed, KillSession, KillSwallowed, WriteJob,
       WriteSession, WriteSwallowed, ApiDies, ApiBoots

LEMMA HandledIsWrittenKept ==
  ASSUME TypeOK, CreationOrder, RowsExist, HandledIsWritten, [Next]_rvars
  PROVE  HandledIsWritten'
<1>1. NothingReopens
  BY StepReopensNothing
<1>2. ASSUME NEW e \in Event
      PROVE  /\ handler'[e] # "none" => e \in events'
             /\ Ending(e) /\ handler'[e] # "none" =>
                  jobRow'[e.sess] \in Terminal \/ e.sess \in missed'
             /\ Ending(e) /\ handler'[e] = "done" =>
                  sessRow'[e.sess] = "CLOSED" \/ e.sess \in missed'
  <2>1. CASE handler'[e] = handler[e]
    BY <2>1, <1>1, EventCases, HistoryGrows, RedisGrows DEF HandledIsWritten, NothingReopens
  <2>2. CASE handler'[e] # handler[e]
    BY <2>2, HandlerStep, RedisGrows
  <2>3. QED
    BY <2>1, <2>2
<1>3. ASSUME NEW s \in failSeen'
      PROVE  \/ jobRow'[s] \in Terminal \/ s \in missed'
             \/ \E e \in events' : e.sess = s /\ Ending(e)
  <2>1. s \in Session
    BY <1>3, TypeKept DEF TypeOK
  <2>2. CASE s \in failSeen
    BY <2>1, <2>2, <1>1, HistoryGrows, RedisGrows DEF HandledIsWritten, NothingReopens
  <2>3. CASE s \notin failSeen
    BY <1>3, <2>1, <2>3, ListenerStep, RedisGrows
  <2>4. QED
    BY <2>2, <2>3
<1>4. QED
  BY <1>2, <1>3 DEF HandledIsWritten

LEMMA RecordsInvKept ==
  ASSUME TypeOK, RowsInv, RecordsInv, [Next]_rvars
  PROVE  RecordsInv'
BY RowsExistKept, HandledIsWrittenKept DEF RowsInv, RecordsInv

LEMMA RecordsInvariant == Spec => []RecordsInv
<1>1. Init => RecordsInv
  BY DEF Init, RecordsInv, RowsExist, HandledIsWritten
<1>2. QED
  BY <1>1, RowsInvariant, RecordsInvKept, PTL DEF Spec

-----------------------------------------------------------------------------
(* The same for whoever composes this module: who writes which row, and    *)
(* what the API does to Redis                                              *)

LEMMA HandlersAdvance ==
  ASSUME TypeOK, [Next]_rvars, NEW e \in Event, handler[e] # "none"
  PROVE  handler'[e] # "none"
<1>1. CASE handler' = handler
  BY <1>1
<1>2. ASSUME NEW f \in Event, WriteJob(f) \/ WriteSession(f) \/ WriteSwallowed(f)
      PROVE  handler'[e] # "none"
  BY <1>2 DEF WriteJob, WriteSession, WriteSwallowed, TypeOK
<1>3. CASE ApiBoots
  BY <1>3 DEF ApiBoots, TypeOK
<1>4. QED
  BY <1>1, <1>2, <1>3
  DEF Next, Service, Environment, rvars, CreateJob, OpenSession, AddToQueue, LinkQueueJob,
      CreateThrows, OnQueueFailed, FailureSwallowed, CloseSession, CloseSwallowed,
      KillSession, KillSwallowed, ApiDies

(* What the handler of e makes of a job's row, without StatusAfter.        *)
LEMMA JobWrite ==
  ASSUME TypeOK, CreationOrder, RowsExist, NEW e \in Event, WriteJob(e)
  PROVE  /\ e \in events
         /\ handler[e] = "none" /\ handler'[e] # "none"
         /\ UNCHANGED sessRow
         /\ \/ UNCHANGED jobRow
            \/ /\ jobRow[e.sess] = "QUEUED"
               /\ jobRow' = [jobRow EXCEPT ![e.sess] = "RUNNING"]
            \/ /\ Ending(e)
               /\ jobRow[e.sess] \in {"QUEUED", "RUNNING"} \cup Terminal
               /\ \E status \in Terminal :
                    /\ jobRow' = [jobRow EXCEPT ![e.sess] = status]
                    /\ e.type # "session-exited" => status = "FAILED"
<1>1. /\ e \in events
      /\ handler[e] = "none" /\ handler'[e] # "none"
      /\ UNCHANGED sessRow
      /\ jobRow' = [jobRow EXCEPT ![e.sess] = StatusAfter(e, jobRow[e.sess])]
  BY DEF WriteJob, TypeOK
<1>2. jobRow[e.sess] \in {"QUEUED", "RUNNING"} \cup Terminal
  BY <1>1, EventCases DEF CreationOrder, RowsExist, TypeOK, JobStatus
<1>3. CASE e.type = "session-started"
  <2>1. StatusAfter(e, jobRow[e.sess]) =
          IF jobRow[e.sess] = "QUEUED" THEN "RUNNING" ELSE jobRow[e.sess]
    BY <1>3 DEF StatusAfter
  <2>2. QED
    BY <1>1, <2>1, EventCases DEF TypeOK
<1>4. CASE e.type = "session-exited"
  <2>1. StatusAfter(e, jobRow[e.sess]) \in Terminal
    BY <1>4 DEF StatusAfter, Terminal
  <2>2. QED
    BY <1>1, <1>2, <1>4, <2>1 DEF Ending
<1>5. CASE e.type = "session-error"
  <2>1. StatusAfter(e, jobRow[e.sess]) = "FAILED" /\ "FAILED" \in Terminal
    BY <1>5 DEF StatusAfter, Terminal
  <2>2. QED
    BY <1>1, <1>2, <1>5, <2>1 DEF Ending
<1>6. QED
  BY <1>3, <1>4, <1>5, EventCases

(* A session row closes once, and never without a reason.                  *)
LEMMA SessionWrite ==
  ASSUME TypeOK, RowsInv, [Next]_rvars, NEW s \in Session,
         sessRow' = [sessRow EXCEPT ![s] = "CLOSED"], sessRow[s] # "none"
  PROVE  \/ UNCHANGED sessRow
         \/ /\ sessRow[s] = "ACTIVE"
            /\ jobRow[s] \in Terminal \/ s \in userClosed' \/ s \in missed
<1>1. sessRow[s] \in {"ACTIVE", "CLOSED"} /\ sessRow'[s] = "CLOSED"
  BY DEF TypeOK
<1>2. CASE sessRow[s] = "CLOSED"
  BY <1>2 DEF TypeOK
<1>3. CASE sessRow[s] = "ACTIVE"
  BY <1>1, <1>3, WhoCloses DEF RowsInv, VerdictFirst
<1>4. QED
  BY <1>1, <1>2, <1>3

(* What a step does to the rows.                                           *)
RowStep ==
  \/ UNCHANGED <<jobRow, sessRow>>
  \/ \E s \in Session :
       /\ jobRow[s] = "none"
       /\ jobRow' = [jobRow EXCEPT ![s] = "QUEUED"]
       /\ UNCHANGED sessRow
  \/ \E s \in Session :
       /\ jobRow[s] # "none" /\ sessRow[s] = "none"
       /\ sessRow' = [sessRow EXCEPT ![s] = "ACTIVE"]
       /\ UNCHANGED jobRow
  \/ \E s \in Session :
       /\ jobRow[s] = "QUEUED"
       /\ jobRow' = [jobRow EXCEPT ![s] = "RUNNING"]
       /\ UNCHANGED sessRow
  \/ \E e \in events, status \in Terminal :
       /\ Ending(e) /\ handler[e] = "none" /\ handler'[e] # "none"
       /\ jobRow[e.sess] \in {"QUEUED", "RUNNING"} \cup Terminal
       /\ jobRow' = [jobRow EXCEPT ![e.sess] = status]
       /\ e.type # "session-exited" => status = "FAILED"
       /\ UNCHANGED sessRow
  \/ \E s \in Session :
       /\ queue[s] = "failed" /\ queue'[s] = "failed"
       /\ jobRow[s] \in {"QUEUED", "RUNNING"}
       /\ jobRow' = [jobRow EXCEPT ![s] = "FAILED"]
       /\ UNCHANGED sessRow
  \/ \E s \in Session :
       /\ sessRow[s] = "ACTIVE"
       /\ jobRow[s] \in Terminal \/ s \in userClosed' \/ s \in missed
       /\ sessRow' = [sessRow EXCEPT ![s] = "CLOSED"]
       /\ UNCHANGED jobRow

LEMMA RowSteps ==
  ASSUME TypeOK, RowsInv, RecordsInv, [Next]_rvars
  PROVE  RowStep
<1>1. ASSUME NEW s \in Session, CreateJob(s) PROVE RowStep
  BY <1>1 DEF RowStep, CreateJob, Creates, RowsInv, CreationOrder
<1>2. ASSUME NEW s \in Session, OpenSession(s) PROVE RowStep
  BY <1>2 DEF RowStep, OpenSession, Creates, RowsInv, CreationOrder, RecordsInv, RowsExist
<1>3. ASSUME NEW s \in Session, OnQueueFailed(s) PROVE RowStep
  BY <1>3 DEF RowStep, OnQueueFailed, TypeOK, redis
<1>4. ASSUME NEW s \in Session, CloseSession(s) PROVE RowStep
  BY <1>4, SessionWrite DEF RowStep, CloseSession
<1>5. ASSUME NEW e \in Event, WriteJob(e) PROVE RowStep
  <2>1. e.sess \in Session
    BY EventCases
  <2>2. QED
    BY <1>5, <2>1, JobWrite DEF RowStep, RowsInv, RecordsInv
<1>6. ASSUME NEW e \in Event, WriteSession(e) PROVE RowStep
  <2>1. /\ e.sess \in Session
        /\ UNCHANGED jobRow
        /\ sessRow' = [sessRow EXCEPT ![e.sess] = SessionAfter(e, sessRow[e.sess])]
    BY <1>6, EventCases DEF WriteSession
  <2>2. CASE SessionAfter(e, sessRow[e.sess]) = sessRow[e.sess]
    BY <2>1, <2>2 DEF RowStep, TypeOK
  <2>3. CASE SessionAfter(e, sessRow[e.sess]) # sessRow[e.sess]
    <3>1. SessionAfter(e, sessRow[e.sess]) = "CLOSED" /\ sessRow[e.sess] # "none"
      BY <2>3 DEF SessionAfter
    <3>2. QED
      BY <2>1, <3>1, SessionWrite DEF RowStep
  <2>4. QED
    BY <2>2, <2>3
<1>7. CASE UNCHANGED <<jobRow, sessRow>>
  BY <1>7 DEF RowStep
<1>8. QED
  BY <1>1, <1>2, <1>3, <1>4, <1>5, <1>6, <1>7
  DEF Next, Service, Environment, rvars, rows, AddToQueue, LinkQueueJob, CreateThrows,
      FailureSwallowed, CloseSwallowed, KillSession, KillSwallowed, WriteSwallowed,
      ApiDies, ApiBoots

(* The API enqueues what is not enqueued and sends kills.                  *)
LEMMA ServiceOnRedis ==
  ASSUME CreationOrder, Service
  PROVE  \/ UNCHANGED <<queue, events, kills>>
         \/ \E s \in Session :
              /\ queue[s] = "none"
              /\ queue' = [queue EXCEPT ![s] = "wait"]
              /\ UNCHANGED <<events, kills>>
         \/ \E s \in Session :
              /\ kills' = kills \cup {s}
              /\ UNCHANGED <<queue, events>>
<1>1. ASSUME NEW s \in Session, AddToQueue(s)
      PROVE  /\ queue[s] = "none"
             /\ queue' = [queue EXCEPT ![s] = "wait"]
             /\ UNCHANGED <<events, kills>>
  BY <1>1 DEF AddToQueue, Creates, CreationOrder
<1>2. ASSUME NEW s \in Session, KillSession(s)
      PROVE  kills' = kills \cup {s} /\ UNCHANGED <<queue, events>>
  BY <1>2 DEF KillSession
<1>3. CASE UNCHANGED <<queue, events, kills>>
  BY <1>3
<1>4. QED
  BY <1>1, <1>2, <1>3
  DEF Service, redis, CreateJob, OpenSession, LinkQueueJob, CreateThrows, OnQueueFailed,
      FailureSwallowed, CloseSession, CloseSwallowed, KillSwallowed, WriteJob, WriteSession,
      WriteSwallowed, ApiDies, ApiBoots

=============================================================================
