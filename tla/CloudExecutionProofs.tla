------------------------ MODULE CloudExecutionProofs ------------------------
(***************************************************************************)
(* What TLAPS proves of the API and the worker together.  Each step of the *)
(* composition is a step of one component and a step that the other one    *)
(* leaves to its environment, so every behaviour of it is one of both, and *)
(* what is proved of each alone holds of it; what relates the rows to the  *)
(* queue and the events follows from that.                                 *)
(***************************************************************************)
EXTENDS CloudExecution, TLAPS

(* The components with what is proved of them.                             *)
A == INSTANCE ExecutionReconcilerProofs
W == INSTANCE ExecutionWorkerProofs

(* The assumptions of the two on their constants.                          *)
LEMMA ApiBound == MaxApiFaults \in Nat
BY CloudAssumption

LEMMA WorkerBounds ==
  /\ Paid \subseteq Session
  /\ Slots \in Nat \ {0}
  /\ MaxRestarts \in Nat
  /\ MaxFaults \in Nat
BY CloudAssumption

-----------------------------------------------------------------------------
(* CloudExecution instantiates the components themselves, this module      *)
(* their proofs: both copies define the same.                              *)

LEMMA Vocabulary ==
  /\ A!Event = Event
  /\ W!Event = Event
  /\ A!Terminal = {"SUCCEEDED", "FAILED"}
  /\ Api!Terminal = {"SUCCEEDED", "FAILED"}
  /\ \A e : /\ A!Ending(e) <=> Ending(e)
            /\ W!Ending(e) <=> Ending(e)
BY
  DEF Event, A!Event, W!Event, Attempt, A!Attempt, W!Attempt, ExitCode, A!ExitCode,
      W!ExitCode, Ending, A!Ending, W!Ending, Errored, A!Errored, W!Errored, Exited,
      A!Exited, W!Exited, A!Terminal, Api!Terminal

LEMMA SameInit == (Api!Init <=> A!Init) /\ (Worker!Init <=> W!Init)
BY DEF Api!Init, A!Init, Api!Event, A!Event, Api!Attempt, A!Attempt, Api!ExitCode,
       A!ExitCode, Worker!Init, W!Init, Worker!GatewayInit, W!GatewayInit

LEMMA SameService == Api!Service <=> A!Service
<1>1. \A s \in Session : Api!Unreported(s) = A!Unreported(s)
  BY DEF Api!Unreported, A!Unreported, Api!Ending, A!Ending
<1>2. QED
  BY <1>1
  DEF Api!Service, A!Service, Api!CreateJob, A!CreateJob, Api!OpenSession,
      A!OpenSession, Api!AddToQueue, A!AddToQueue, Api!LinkQueueJob, A!LinkQueueJob,
      Api!CreateThrows, A!CreateThrows, Api!OnQueueFailed, A!OnQueueFailed,
      Api!FailureSwallowed, A!FailureSwallowed, Api!CloseSession, A!CloseSession,
      Api!CloseSwallowed, A!CloseSwallowed, Api!KillSession, A!KillSession,
      Api!KillSwallowed, A!KillSwallowed, Api!WriteJob, A!WriteJob, Api!WriteSession,
      A!WriteSession, Api!WriteSwallowed, A!WriteSwallowed, Api!ApiDies, A!ApiDies,
      Api!ApiBoots, A!ApiBoots, Api!Creates, A!Creates, Api!Swallowed, A!Swallowed,
      Api!StatusAfter, A!StatusAfter, Api!SessionAfter, A!SessionAfter, Api!Ending,
      A!Ending, Api!Event, A!Event, Api!Attempt, A!Attempt, Api!ExitCode, A!ExitCode,
      Api!Unwritten, A!Unwritten, Api!UnseenFailures, A!UnseenFailures, Api!redis,
      A!redis, Api!rows, A!rows, Api!requests, A!requests, Api!process, A!process

LEMMA SameWorkerNext == Worker!WorkerNext <=> W!WorkerNext
<1>1. ASSUME NEW s \in Session PROVE Worker!Take(s) <=> W!Take(s)
  <2>1. (\A t \in Session : queue[t] = "wait" => Worker!Rank(s) <= Worker!Rank(t)) <=>
        (\A t \in Session : queue[t] = "wait" => W!Rank(s) <= W!Rank(t))
    BY DEF Worker!Rank, W!Rank
  <2>2. \A S : Worker!Cardinality(S) = W!Cardinality(S)
    BY Zenon DEF Worker!Cardinality, W!Cardinality
  <2>3. QED
    BY <2>1, <2>2
    DEF Worker!Take, W!Take, Worker!channel, W!channel, Worker!docker, W!docker,
        Worker!process, W!process
<1>2. ASSUME NEW s \in Session
      PROVE  /\ Worker!CreateContainer(s) <=> W!CreateContainer(s)
             /\ Worker!CreateFails(s) <=> W!CreateFails(s)
             /\ Worker!StartContainer(s) <=> W!StartContainer(s)
             /\ Worker!StartFails(s) <=> W!StartFails(s)
             /\ Worker!Scrap(s) <=> W!Scrap(s)
  BY
  DEF Worker!CreateContainer, W!CreateContainer, Worker!CreateFails, W!CreateFails,
      Worker!StartContainer, W!StartContainer, Worker!StartFails, W!StartFails,
      Worker!Scrap, W!Scrap, Worker!Publish, W!Publish, Worker!Fault, W!Fault,
      Worker!RemoveContainer, W!RemoveContainer, Worker!DropContainer,
      W!DropContainer, Worker!redis, W!redis, Worker!channel, W!channel,
      Worker!docker, W!docker, Worker!process, W!process, Worker!Started, W!Started,
      Worker!Errored, W!Errored
<1>3. ASSUME NEW s \in Session
      PROVE  /\ Worker!ConnectTimeout(s) <=> W!ConnectTimeout(s)
             /\ Worker!MaxDuration(s) <=> W!MaxDuration(s)
             /\ Worker!DestroyContainer(s) <=> W!DestroyContainer(s)
             /\ Worker!Complete(s) <=> W!Complete(s)
             /\ Worker!Fail(s) <=> W!Fail(s)
             /\ Worker!OnControl(s) <=> W!OnControl(s)
             /\ Worker!Stalled(s) <=> W!Stalled(s)
  BY
  DEF Worker!ConnectTimeout, W!ConnectTimeout, Worker!MaxDuration, W!MaxDuration,
      Worker!DestroyContainer, W!DestroyContainer, Worker!Complete, W!Complete,
      Worker!Fail, W!Fail, Worker!OnControl, W!OnControl, Worker!Stalled, W!Stalled,
      Worker!Release, W!Release, Worker!Publish, W!Publish, Worker!Fault, W!Fault,
      Worker!RemoveContainer, W!RemoveContainer, Worker!DropContainer,
      W!DropContainer, Worker!Settle, W!Settle, Worker!redis, W!redis,
      Worker!channel, W!channel, Worker!docker, W!docker, Worker!process, W!process,
      Worker!handlers, W!handlers, Worker!Exited, W!Exited
<1>4. ASSUME NEW c \in Conn PROVE Worker!Gateway(c) <=> W!Gateway(c)
  BY
  DEF Worker!Gateway, W!Gateway, Worker!Open, W!Open, Worker!StartMessage,
      W!StartMessage, Worker!Attach, W!Attach, Worker!AttachFails, W!AttachFails,
      Worker!QueueWaitExpires, W!QueueWaitExpires, Worker!PtyEnds, W!PtyEnds,
      Worker!HangUp, W!HangUp, Worker!OnSessionExit, W!OnSessionExit, Worker!Release,
      W!Release, Worker!Accept, W!Accept, Worker!Start, W!Start, Worker!Spawn,
      W!Spawn, Worker!SpawnFails, W!SpawnFails, Worker!PtyExit, W!PtyExit,
      Worker!SocketClose, W!SocketClose, Worker!Reports, W!Reports, Worker!Finish,
      W!Finish, Worker!redis, W!redis, Worker!channel, W!channel, Worker!docker,
      W!docker, Worker!process, W!process, Worker!handlers, W!handlers
<1>5. Worker!Process <=> W!Process
  BY
  DEF Worker!Process, W!Process, Worker!Boot, W!Boot, Worker!ReapList, W!ReapList,
      Worker!ReapSkipped, W!ReapSkipped, Worker!ReapDone, W!ReapDone,
      Worker!Shutdown, W!Shutdown, Worker!ShutdownDone, W!ShutdownDone, Worker!Die,
      W!Die, Worker!ReapRemove, W!ReapRemove, Worker!Stop, W!Stop,
      Worker!GatewayDies, W!GatewayDies, Worker!RemoveContainer, W!RemoveContainer,
      Worker!Fault, W!Fault, Worker!redis, W!redis, Worker!channel, W!channel,
      Worker!docker, W!docker, Worker!process, W!process, Worker!handlers, W!handlers
<1>6. QED
  BY <1>1, <1>2, <1>3, <1>4, <1>5
  DEF Worker!WorkerNext, W!WorkerNext, Worker!Handler, W!Handler

-----------------------------------------------------------------------------
(* A step of the composition is a step of each component                   *)

TypesAndOrder ==
  /\ W!TypeOK /\ W!VerdictInv
  /\ A!TypeOK /\ A!RowsInv

(* What the worker does to Redis, the API's environment may do.            *)
LEMMA WorkerStepIsBoth ==
  ASSUME TypesAndOrder, WorkerStep
  PROVE  W!WorkerNext /\ W!RedisStep /\ A!Environment
<1>1. W!WorkerNext /\ UNCHANGED apiOnly
  BY SameWorkerNext DEF WorkerStep
<1>2. W!RedisStep
  BY <1>1, W!RedisSteps, SessionAssumption, StalledAssumption, WorkerBounds
  DEF TypesAndOrder, W!VerdictInv
<1>3. A!Environment
  BY <1>1, <1>2, Vocabulary
  DEF W!RedisStep, W!QueueState, A!Environment, A!Publishes, A!MovesEntry, A!TakesKills,
      A!QueueState, A!rows, A!requests, A!process, apiOnly
<1>4. QED
  BY <1>1, <1>2, <1>3

(* What the API does to Redis, the worker's environment may do.            *)
LEMMA ApiStepIsBoth ==
  ASSUME TypesAndOrder, ApiStep
  PROVE  /\ A!Service
         /\ \/ UNCHANGED W!wvars
            \/ \E s \in Session : W!Enqueue(s) \/ W!SendKill(s)
<1>1. A!Service /\ UNCHANGED workerOnly
  BY SameService DEF ApiStep
<1>2. \/ UNCHANGED <<queue, events, kills>>
      \/ \E s \in Session :
           /\ queue[s] = "none"
           /\ queue' = [queue EXCEPT ![s] = "wait"]
           /\ UNCHANGED <<events, kills>>
      \/ \E s \in Session :
           /\ kills' = kills \cup {s}
           /\ UNCHANGED <<queue, events>>
  BY <1>1, A!ServiceOnRedis, SessionAssumption, StalledAssumption, ApiBound
  DEF TypesAndOrder, A!RowsInv
<1>3. QED
  BY <1>1, <1>2
  DEF workerOnly, W!wvars, W!Enqueue, W!SendKill, W!channel, W!docker, W!process,
      W!handlers

LEMMA StepIsBoth ==
  ASSUME TypesAndOrder, [Next]_vars
  PROVE  [W!Next]_(W!wvars) /\ [A!Next]_(A!rvars)
<1>1. CASE WorkerStep
  BY <1>1, WorkerStepIsBoth DEF W!Next, A!Next
<1>2. CASE ApiStep
  BY <1>2, ApiStepIsBoth DEF W!Next, A!Next
<1>3. CASE UNCHANGED vars
  BY <1>3 DEF vars, shared, workerOnly, apiOnly, W!wvars, A!rvars
<1>4. QED
  BY <1>1, <1>2, <1>3 DEF Next

LEMMA TypesAndOrderKept ==
  ASSUME TypesAndOrder, [Next]_vars
  PROVE  TypesAndOrder'
<1>1. [W!Next]_(W!wvars) /\ [A!Next]_(A!rvars)
  BY StepIsBoth
<1>2. W!TypeOK' /\ W!VerdictInv'
  BY <1>1, W!TypeKept, W!VerdictInvKept, SessionAssumption, StalledAssumption, WorkerBounds
  DEF TypesAndOrder
<1>3. A!TypeOK' /\ A!RowsInv'
  BY <1>1, A!TypeKept, A!RowsInvKept, SessionAssumption, StalledAssumption, ApiBound
  DEF TypesAndOrder
<1>4. QED
  BY <1>2, <1>3 DEF TypesAndOrder

LEMMA TypesAndOrderInvariant == Spec => []TypesAndOrder
<1>1. Init => TypesAndOrder
  <2>1. Init => W!TypeOK /\ W!VerdictInv
    BY SameInit, W!TypeInit, W!VerdictInit, SessionAssumption, StalledAssumption,
       WorkerBounds
    DEF Init
  <2>2. Init => A!TypeOK /\ A!RowsInv
    BY SameInit, A!TypeInit, A!RowsInit, SessionAssumption, StalledAssumption, ApiBound
    DEF Init
  <2>3. QED
    BY <2>1, <2>2 DEF TypesAndOrder
<1>2. QED
  BY <1>1, TypesAndOrderKept, PTL DEF Spec

LEMMA SpecIsBoth == Spec => W!Spec /\ A!Spec
<1>1. Init => W!Init /\ A!Init
  BY SameInit DEF Init
<1>2. QED
  BY <1>1, StepIsBoth, TypesAndOrderInvariant, PTL DEF Spec, W!Spec, A!Spec

(* Neither process does to what they share anything the other module's     *)
(* environment does not allow for.                                         *)
THEOREM ComponentsInContext == Spec => Worker!Spec /\ Api!Spec
<1>1. Worker!Next <=> W!Next
  BY SameWorkerNext
  DEF Worker!Next, W!Next, Worker!Enqueue, W!Enqueue, Worker!SendKill, W!SendKill,
      Worker!channel, W!channel, Worker!docker, W!docker, Worker!process, W!process,
      Worker!handlers, W!handlers
<1>2. Api!Next <=> A!Next
  <2>1. Api!Event = A!Event
    BY DEF Api!Event, A!Event, Api!Attempt, A!Attempt, Api!ExitCode, A!ExitCode
  <2>2. Api!Environment <=> A!Environment
    BY <2>1
    DEF Api!Environment, A!Environment, Api!Publishes, A!Publishes, Api!MovesEntry,
        A!MovesEntry, Api!TakesKills, A!TakesKills, Api!QueueState, A!QueueState, Api!rows,
        A!rows, Api!requests, A!requests, Api!process, A!process
  <2>3. QED
    BY <2>2, SameService DEF Api!Next, A!Next
<1>3. Init => Worker!Init /\ Api!Init
  BY DEF Init
<1>4. TypesAndOrder /\ [Next]_vars => [Worker!Next]_(Worker!wvars) /\ [Api!Next]_(Api!rvars)
  BY <1>1, <1>2, StepIsBoth DEF Worker!wvars, W!wvars, Api!rvars, A!rvars
<1>5. QED
  BY <1>3, <1>4, TypesAndOrderInvariant, PTL DEF Spec, Worker!Spec, Api!Spec

(* What the two promise, in the vocabulary of the composition.             *)
ComponentPromises ==
  /\ Worker!SlotHeldForSomeone
  /\ Worker!OneVerdictPerRun
  /\ Worker!EveryEndIsReported
  /\ Worker!NoOrphanContainer
  /\ Api!ClosedHasVerdict

LEMMA SamePromises ==
  ASSUME W!SlotHeldForSomeone, W!OneVerdictPerRun, W!EveryEndIsReported,
         W!NoOrphanContainer, A!ClosedHasVerdict
  PROVE  ComponentPromises
<1>1. Worker!SlotHeldForSomeone
  BY DEF Worker!SlotHeldForSomeone, W!SlotHeldForSomeone, Worker!Attached, W!Attached,
         Worker!AttachedAndGone, W!AttachedAndGone
<1>2. Worker!OneVerdictPerRun
  BY DEF Worker!OneVerdictPerRun, W!OneVerdictPerRun, Worker!Ending, W!Ending
<1>3. Worker!EveryEndIsReported
  BY DEF Worker!EveryEndIsReported, W!EveryEndIsReported, Worker!ExitCode, W!ExitCode,
         Worker!Exited, W!Exited, Worker!Errored, W!Errored, Worker!StalledOut, W!StalledOut
<1>4. Worker!NoOrphanContainer
  BY DEF Worker!NoOrphanContainer, W!NoOrphanContainer, Worker!Owned, W!Owned
<1>5. Api!ClosedHasVerdict
  BY Vocabulary DEF Api!ClosedHasVerdict, A!ClosedHasVerdict
<1>6. QED
  BY <1>1, <1>2, <1>3, <1>4, <1>5 DEF ComponentPromises

(* Proved of each component beside an arbitrary environment, these hold of *)
(* the two together: a slot is held for someone, a run has one verdict,    *)
(* every end is reported, no container is orphaned, a closed session's job *)
(* has its verdict, and a row once final is never opened again.            *)
THEOREM PromisesInContext == Spec => []ComponentPromises /\ Api!RecordsNeverReopen
<1>1. W!Spec => /\ []W!SlotHeldForSomeone /\ []W!OneVerdictPerRun
                /\ []W!EveryEndIsReported /\ []W!NoOrphanContainer
  BY W!SlotHeld, W!OneVerdict, W!EndsAreReported, W!NoOrphan,
     SessionAssumption, StalledAssumption, WorkerBounds
<1>2. A!Spec => []A!ClosedHasVerdict /\ A!RecordsNeverReopen
  BY A!VerdictBeforeClose, A!NeverReopen, SessionAssumption, StalledAssumption, ApiBound
<1>3. [A!NothingReopens]_(A!rvars) => [Api!NothingReopens]_(Api!rvars)
  BY DEF A!NothingReopens, Api!NothingReopens, A!rvars, Api!rvars, A!Terminal, Api!Terminal
<1>4. QED
  BY <1>1, <1>2, <1>3, SpecIsBoth, SamePromises, PTL
  DEF A!RecordsNeverReopen, Api!RecordsNeverReopen

(* What was proved of each component alone, of the composition.            *)
Known ==
  /\ TypesAndOrder
  /\ A!RecordsInv
  /\ W!EveryEndIsReported
  /\ W!ErrorIsTheVerdict

LEMMA KnownInvariant == Spec => []Known
<1>1. W!Spec => []W!EveryEndIsReported /\ []W!ErrorIsTheVerdict
  BY W!EndsAreReported, W!ErrorInvariant, SessionAssumption, StalledAssumption, WorkerBounds
<1>2. A!Spec => []A!RecordsInv
  BY A!RecordsInvariant, SessionAssumption, StalledAssumption, ApiBound
<1>3. QED
  BY <1>1, <1>2, SpecIsBoth, TypesAndOrderInvariant, PTL DEF Known

-----------------------------------------------------------------------------
(* Quiet records                                                           *)

(* execution-reconciler.service.ts:17-19: an entry that left the queue was *)
(* reported or the listener has seen it fail, what was handled is in the   *)
(* rows.                                                                   *)
LEMMA QuietIsFinal ==
  ASSUME Known
  PROVE  QuietRecordsAreFinal
<1> SUFFICES ASSUME NEW s \in Session \ (missed \cup dropped), Quiet(s)
             PROVE  /\ jobRow[s] \in {"SUCCEEDED", "FAILED"}
                    /\ (\E e \in events : e.sess = s /\ Ending(e)) => sessRow[s] = "CLOSED"
  BY DEF QuietRecordsAreFinal
<1>1. events \subseteq Event /\ stalls[s] \in Attempt
  BY Vocabulary DEF Known, TypesAndOrder, A!TypeOK, W!TypeOK, Attempt, W!Attempt
<1>2. ASSUME NEW e \in events, e.sess = s, Ending(e)
      PROVE  jobRow[s] \in {"SUCCEEDED", "FAILED"} /\ sessRow[s] = "CLOSED"
  <2>1. handler[e] = "done"
    BY <1>2 DEF Quiet
  <2>2. QED
    BY <1>1, <1>2, <2>1, Vocabulary DEF Known, A!RecordsInv, A!HandledIsWritten
<1>3. CASE queue[s] = "completed"
  <2>1. PICK code \in ExitCode : Exited(s, stalls[s], code) \in events
    <3>1. \E code \in ExitCode : W!Exited(s, stalls[s], code) \in events
      BY <1>3 DEF Known, W!EveryEndIsReported, ExitCode, W!ExitCode
    <3>2. \A code : W!Exited(s, stalls[s], code) = Exited(s, stalls[s], code)
      BY DEF Exited, W!Exited
    <3>3. QED
      BY <3>1, <3>2
  <2>2. Exited(s, stalls[s], code).sess = s /\ Ending(Exited(s, stalls[s], code))
    BY DEF Exited, Ending
  <2>3. QED
    BY <1>2, <2>1, <2>2
<1>4. CASE queue[s] = "failed"
  <2>1. s \in failSeen
    BY <1>4 DEF Quiet
  <2>2. \/ jobRow[s] \in A!Terminal \/ s \in missed
        \/ \E e \in events : e.sess = s /\ Ending(e)
    BY <2>1, Vocabulary DEF Known, A!RecordsInv, A!HandledIsWritten
  <2>3. QED
    BY <1>2, <2>2, Vocabulary
<1>5. QED
  BY <1>3, <1>4 DEF Quiet

(* Once everything said about a session was handled, its rows are final.   *)
THEOREM QuietRecords == Spec => []QuietRecordsAreFinal
BY KnownInvariant, QuietIsFinal, PTL

-----------------------------------------------------------------------------
(* The records follow their lifecycle                                      *)

(* What only grows, and what a step does to the rows.                      *)
LEMMA StepFacts ==
  ASSUME Known, [Next]_vars
  PROVE  /\ A!RowStep
         /\ events \subseteq events'
         /\ missed \subseteq missed' /\ userClosed \subseteq userClosed'
         /\ \A e \in events : handler[e] # "none" => handler'[e] # "none"
<1>1. A!TypeOK /\ A!RowsInv /\ A!RecordsInv /\ [A!Next]_(A!rvars)
  BY StepIsBoth DEF Known, TypesAndOrder
<1>2. A!RowStep
  BY <1>1, A!RowSteps, SessionAssumption, StalledAssumption, ApiBound
<1>3. events \subseteq events'
  BY <1>1, A!RedisGrows, SessionAssumption, StalledAssumption, ApiBound
<1>4. missed \subseteq missed' /\ userClosed \subseteq userClosed'
  BY <1>1, A!HistoryGrows, SessionAssumption, StalledAssumption, ApiBound
<1>5. ASSUME NEW e \in events, handler[e] # "none" PROVE handler'[e] # "none"
  <2>1. e \in A!Event
    BY <1>1 DEF A!TypeOK
  <2>2. QED
    BY <1>1, <1>5, <2>1, A!HandlersAdvance, SessionAssumption, StalledAssumption, ApiBound
<1>6. QED
  BY <1>2, <1>3, <1>4, <1>5

(* An entry that failed stays so, and one that was handed out again was.   *)
LEMMA QueueFacts ==
  ASSUME Known, [Next]_vars, NEW s \in Session
  PROVE  /\ queue[s] = "failed" => queue'[s] = "failed"
         /\ stalls[s] > 0 => stalls'[s] > 0
<1>1. queue \in [Session -> W!QueueState] /\ stalls \in [Session -> Nat]
  BY StalledAssumption DEF Known, TypesAndOrder, W!TypeOK, W!Attempt
<1>2. CASE WorkerStep
  <2>1. W!RedisStep
    BY <1>2, WorkerStepIsBoth DEF Known
  <2>2. QED
    BY <1>1, <2>1 DEF W!RedisStep
<1>3. CASE ApiStep
  BY <1>1, <1>3, ApiStepIsBoth DEF Known, W!wvars, W!Enqueue, W!SendKill
<1>4. CASE UNCHANGED vars
  BY <1>4 DEF vars, shared, workerOnly
<1>5. QED
  BY <1>2, <1>3, <1>4 DEF Next

LEMMA OneSourceKept ==
  ASSUME Known, OneSource, [Next]_vars
  PROVE  OneSource'
<1> SUFFICES ASSUME NEW s \in Session, jobRow'[s] \in {"SUCCEEDED", "FAILED"}
             PROVE  \/ \E e \in events' : e.sess = s /\ Ending(e) /\ handler'[e] # "none"
                    \/ jobRow'[s] = "FAILED" /\ queue'[s] = "failed"
  BY Vocabulary DEF OneSource
<1>1. jobRow \in [Session -> A!JobStatus \cup {"none"}]
  BY DEF Known, TypesAndOrder, A!TypeOK
<1>2. CASE jobRow'[s] = jobRow[s]
  BY <1>2, StepFacts, QueueFacts, Vocabulary DEF OneSource
<1>3. CASE jobRow'[s] # jobRow[s]
  <2>1. \/ \E e \in events : e.sess = s /\ A!Ending(e) /\ handler'[e] # "none"
        \/ queue'[s] = "failed" /\ jobRow'[s] = "FAILED"
    BY <1>1, <1>3, StepFacts DEF A!RowStep
  <2>2. QED
    BY <2>1, StepFacts, Vocabulary
<1>4. QED
  BY <1>2, <1>3

LEMMA OneSourceInvariant == Spec => [](Known /\ OneSource)
<1>1. Init => OneSource
  BY Vocabulary DEF Init, Api!Init, OneSource
<1>2. QED
  BY <1>1, KnownInvariant, OneSourceKept, PTL DEF Spec

(* The handler of an ending event meets a verdict: of this run, it would   *)
(* be that of another event, which OneVerdictPerRun excludes, or of the    *)
(* backstop, and then the run failed and this event says so.               *)
LEMMA SecondVerdictIsTheSame ==
  ASSUME MaxStalledCount # 0, Known, OneSource,
         NEW e \in events, Ending(e), handler[e] = "none",
         stalls[e.sess] = 0,
         jobRow[e.sess] \in {"SUCCEEDED", "FAILED"}
  PROVE  jobRow[e.sess] = "FAILED" /\ e.type # "session-exited"
<1>1. /\ events \subseteq Event
      /\ \A f \in events : f.sess \in Session /\ f.attempt \in Nat
  BY Vocabulary, StalledAssumption DEF Known, TypesAndOrder, A!TypeOK, Event, Attempt
<1>2. \A f \in events : f.sess = e.sess => f.attempt = 0
  BY <1>1 DEF Known, TypesAndOrder, W!VerdictInv, W!VerdictIsLast
<1>3. CASE \E f \in events : f.sess = e.sess /\ Ending(f) /\ handler[f] # "none"
  <2>1. PICK f \in events : f.sess = e.sess /\ Ending(f) /\ handler[f] # "none"
    BY <1>3
  <2>2. f = e
    BY <1>2, <2>1, Vocabulary DEF Known, TypesAndOrder, W!VerdictInv, W!OneVerdictPerRun
  <2>3. QED
    BY <2>1, <2>2
<1>4. CASE jobRow[e.sess] = "FAILED" /\ queue[e.sess] = "failed"
  <2>1. 0 < MaxStalledCount
    BY StalledAssumption
  <2>2. e.type # "session-exited"
    BY <1>1, <1>2, <1>4, <2>1 DEF Known, W!ErrorIsTheVerdict
  <2>3. QED
    BY <1>4, <2>2
<1>5. QED
  BY <1>1, <1>3, <1>4, Vocabulary DEF OneSource

LEMMA StepFollowsLifecycle ==
  ASSUME MaxStalledCount # 0, Known, OneSource, [Next]_vars
  PROVE  Lifecycle!LNext
<1> DEFINE Rerun == {s \in Session : stalls[s] > 0}
<1>1. /\ jobRow \in [Session -> {"none", "QUEUED", "RUNNING", "SUCCEEDED", "FAILED"}]
      /\ sessRow \in [Session -> {"none", "ACTIVE", "CLOSED"}]
      /\ events \subseteq Event
      /\ stalls \in [Session -> Nat]
  BY Vocabulary, StalledAssumption
  DEF Known, TypesAndOrder, A!TypeOK, A!JobStatus, W!TypeOK, W!Attempt
<1>2. /\ Rerun \subseteq Rerun'
      /\ userClosed \subseteq userClosed'
      /\ missed \subseteq missed'
  BY StepFacts, QueueFacts
<1>3. \/ \E s \in Session : Lifecycle!JobStep(s) \/ Lifecycle!Open(s) \/ Lifecycle!Close(s)
      \/ UNCHANGED <<jobRow, sessRow>>
  <2>1. ASSUME NEW s \in Session, NEW status \in Lifecycle!Successors(s),
               jobRow' = [jobRow EXCEPT ![s] = status], UNCHANGED sessRow
        PROVE  Lifecycle!JobStep(s)
    BY <2>1 DEF Lifecycle!JobStep
  <2>2. ASSUME NEW s \in Session, jobRow[s] = "none",
               jobRow' = [jobRow EXCEPT ![s] = "QUEUED"], UNCHANGED sessRow
        PROVE  Lifecycle!JobStep(s)
    <3>1. "QUEUED" \in Lifecycle!Successors(s)
      BY <2>2 DEF Lifecycle!Successors, Lifecycle!Verdict
    <3>2. QED
      BY <2>1, <2>2, <3>1
  <2>3. ASSUME NEW s \in Session, jobRow[s] = "QUEUED",
               jobRow' = [jobRow EXCEPT ![s] = "RUNNING"], UNCHANGED sessRow
        PROVE  Lifecycle!JobStep(s)
    <3>1. "RUNNING" \in Lifecycle!Successors(s)
      BY <2>3 DEF Lifecycle!Successors, Lifecycle!Verdict
    <3>2. QED
      BY <2>1, <2>3, <3>1
  <2>4. ASSUME NEW s \in Session, NEW status \in {"SUCCEEDED", "FAILED"},
               jobRow[s] \in {"QUEUED", "RUNNING"},
               jobRow' = [jobRow EXCEPT ![s] = status], UNCHANGED sessRow
        PROVE  Lifecycle!JobStep(s)
    <3>1. status \in Lifecycle!Successors(s)
      BY <2>4 DEF Lifecycle!Successors, Lifecycle!Verdict
    <3>2. QED
      BY <2>1, <2>4, <3>1
  <2>5. ASSUME NEW e \in events, NEW status \in {"SUCCEEDED", "FAILED"},
               Ending(e), handler[e] = "none",
               jobRow[e.sess] \in {"SUCCEEDED", "FAILED"},
               jobRow' = [jobRow EXCEPT ![e.sess] = status],
               e.type # "session-exited" => status = "FAILED",
               UNCHANGED sessRow
        PROVE  Lifecycle!JobStep(e.sess) \/ UNCHANGED <<jobRow, sessRow>>
    <3>1. e.sess \in Session
      BY <1>1 DEF Event
    <3>2. CASE stalls[e.sess] > 0
      <4>1. status \in Lifecycle!Successors(e.sess)
        BY <2>5, <3>1, <3>2 DEF Lifecycle!Successors, Lifecycle!Verdict
      <4>2. QED
        BY <2>1, <2>5, <3>1, <4>1
    <3>3. CASE stalls[e.sess] = 0
      <4>1. jobRow[e.sess] = "FAILED" /\ status = "FAILED"
        BY <2>5, <3>3, SecondVerdictIsTheSame
      <4>2. QED
        BY <1>1, <2>5, <4>1
    <3>4. QED
      BY <1>1, <3>1, <3>2, <3>3
  <2>6. ASSUME NEW s \in Session, jobRow[s] # "none", sessRow[s] = "none",
               sessRow' = [sessRow EXCEPT ![s] = "ACTIVE"], UNCHANGED jobRow
        PROVE  Lifecycle!Open(s)
    BY <2>6 DEF Lifecycle!Open
  <2>7. ASSUME NEW s \in Session, sessRow[s] = "ACTIVE",
               jobRow[s] \in {"SUCCEEDED", "FAILED"} \/ s \in userClosed' \/ s \in missed,
               sessRow' = [sessRow EXCEPT ![s] = "CLOSED"], UNCHANGED jobRow
        PROVE  Lifecycle!Close(s)
    BY <2>7 DEF Lifecycle!Close, Lifecycle!Verdict
  <2>8. A!RowStep
    BY StepFacts
  <2>9. ASSUME NEW e \in events PROVE e.sess \in Session
    BY <1>1 DEF Event
  <2>10. QED
    BY <2>2, <2>3, <2>4, <2>5, <2>6, <2>7, <2>8, <2>9, Vocabulary DEF A!RowStep
<1>4. QED
  BY <1>2, <1>3 DEF Lifecycle!LNext

(* The rows the API serves evolve as SessionLifecycle promises, whatever   *)
(* crashes, stalls, shuts down or interleaves.  BullMQ hands a stalled     *)
(* entry out again at least once (index.ts sets no maxStalledCount, its    *)
(* default is 1): if it never did, an entry whose only run had reported an *)
(* exit could fail by stalling, and the handler of that exit would revise  *)
(* the backstop's verdict without a second run.                            *)
THEOREM RecordsRefine ==
  ASSUME MaxStalledCount # 0
  PROVE  Spec => RecordsFollowLifecycle
<1>1. Init => Lifecycle!LInit
  <2>1. Init => stalls = [s \in Session |-> 0]
    BY DEF Init, Worker!Init
  <2>2. Init => {s \in Session : stalls[s] > 0} = {}
    BY <2>1
  <2>3. QED
    BY <2>2 DEF Init, Api!Init, Lifecycle!LInit
<1>2. Known /\ OneSource /\ [Next]_vars => [Lifecycle!LNext]_(Lifecycle!lvars)
  BY StepFollowsLifecycle
<1>3. QED
  BY <1>1, <1>2, OneSourceInvariant, PTL
  DEF Spec, RecordsFollowLifecycle, Lifecycle!LSpec

=============================================================================
